---- MODULE Spec2Model ----
(***************************************************************************)
(* SMNTC: the token registry, the semantic dictionary (resolveConstants),  *)
(* the spring engine, the performance auto-scaler and the kernel that      *)
(* composes them.                                                          *)
(*                                                                         *)
(* Numbers.  The program computes in IEEE doubles.  Here every real        *)
(* quantity is a fixed-point integer counting units of 1/Scale, and a      *)
(* product or quotient is rounded to the nearest unit.  Token names are    *)
(* strings; `undefined' is the absence of a key in a partial record.       *)
(***************************************************************************)
EXTENDS Integers, Sequences, FiniteSets, TLC

VARIABLES
    registry,   \* the five module-level Maps of registry.ts, in insertion order
    cfgIn,      \* the (partial) configuration a caller hands to resolveConstants
    res,        \* <<>> or <<outcome>> of the last resolveConstants call on these inputs
    reps,       \* consecutive resolveConstants calls since the inputs last changed
    spring,     \* one Spring object: value, velocity, target, settled, config
    springOp,   \* the last method called on it
    nsteps,     \* step calls made on it
    scaler,     \* one AutoScaler object
    note,       \* what the last AutoScaler call passed to onFidelityChange: <<>> or <<tier>>
    kernel,     \* one SMNTCKernel object
    proxies,    \* every InputProxy constructed so far, in order of construction
    pending,    \* ids of the requestAnimationFrame callbacks not yet run or cancelled
    call,       \* the last public call on the kernel and whether it threw
    env,        \* the kernel's surroundings: was it handed a mesh, a camera and a DOM
                \* element, and is the tab hidden
    ncalls,     \* public calls and frame callbacks so far
    stream,     \* a constant stream of frames fed to the AutoScaler: its duration, the
                \* frames reported, the notifications received, the starting index
    springBank, \* one SpringBank: its Map from key to Spring object
    bankOp,     \* the last SpringBank call, the object it returned, and the object
                \* first returned for each key
    presets,    \* the module-level presetRegistry Map, in insertion order
    applied,    \* <<>> or <<the last applyPreset call: preset, config, outcome>>
    log         \* the register calls made so far, in order

resolverVars == <<registry, cfgIn, res, reps>>
springVars == <<spring, springOp, nsteps>>
scalerVars == <<scaler, note>>
kernelVars == <<kernel, proxies, pending, call, env, ncalls>>
extraVars == <<stream, springBank, bankOp, presets, applied, log>>

vars == <<registry, cfgIn, res, reps, spring, springOp, nsteps, scaler, note,
          kernel, proxies, pending, call, env, ncalls,
          stream, springBank, bankOp, presets, applied, log>>

----------------------------------------------------------------------------
(* Bounds of the model *)

\* populated fields of a configuration handed to resolveConstants
MaxFields == 2
\* runtime registrations that differ from the built-in tables
MaxRegs == 2
\* repeated resolveConstants calls on unchanged inputs
MaxReps == 2
\* step calls on a spring that callers retarget and snap at will
MaxSpringSteps == 4
\* step calls beyond the 300 of the settling run
MaxExtraSteps == 20
\* the sampleWindow, downgradeThreshold and upgradeThreshold options of a
\* stand-alone AutoScaler
SmallWindow == 3
SmallDowngrade == 2
SmallUpgrade == 3
\* consecutive slow or fast evaluations counted at the end of the ladder
MaxStreak == 5
MaxCalls == 4
\* register and define calls on record
MaxLogLen == 3
\* operations on one SpringBank
MaxBankOps == 4
\* frames reported in one constant stream
MaxReports == 100

\* no kernel has been constructed
KernelIdle ==
    /\ kernel = <<>> /\ proxies = <<>> /\ pending = {} /\ call = <<>>
    /\ env = <<>> /\ ncalls = 0

\* no frame stream is fed to an AutoScaler
StreamIdle == stream = <<>>

\* no SpringBank has been constructed
BankIdle == springBank = <<>> /\ bankOp = <<>>

\* no preset is registered or applied
PresetIdle == presets = <<>> /\ applied = <<>>

\* no register call is on record
LogIdle == log = <<>>

ExtraIdle == StreamIdle /\ BankIdle /\ PresetIdle /\ LogIdle

----------------------------------------------------------------------------
(* Fixed-point arithmetic *)

Scale == 10^5

Min(a, b) == IF a < b THEN a ELSE b
Max(a, b) == IF a > b THEN a ELSE b
Abs(a) == IF a < 0 THEN -a ELSE a

\* n/d units, rounded to the nearest unit (a literal such as 2.5 is Fx(25, 10))
Fx(n, d) == (2 * n * Scale + d) \div (2 * d)

\* a * n / d rounded to the nearest integer, without forming a * n
MulDiv(a, n, d) == (a \div d) * n + (2 * ((a % d) * n) + d) \div (2 * d)

----------------------------------------------------------------------------
(* registry.ts: the built-in tables and the mutable registry *)

Entry(n, d) == [name |-> n, def |-> d]

\* parseInt(h.substring(..), 16) / 255 for the three bytes of a colour
hexToRGB(r, g, b) == <<Fx(r, 255), Fx(g, 255), Fx(b, 255)>>

SurfaceDef(m, ns) == [mode |-> m, noiseScale |-> ns]
VibeDef(f, a, d, ns) == [frequency |-> f, amplitude |-> a, damping |-> d, noiseSpeed |-> ns]
ReactivityDef(m, s, r) == [mode |-> m, strength |-> s, radius |-> r]
FidelityDef(s, w) == [segments |-> s, wireframeWidth |-> w]
PaletteDef(p, a, b) == [primary |-> p, accent |-> a, background |-> b]

BASE_SURFACE_MAP ==
    << Entry("topographic", SurfaceDef(0, Fx(10, 10))),
       Entry("crystalline", SurfaceDef(1, Fx(25, 10))),
       Entry("fluid",       SurfaceDef(2, Fx(6, 10))),
       Entry("glitch",      SurfaceDef(3, Fx(30, 10))),
       Entry("organic",     SurfaceDef(4, Fx(8, 10))),
       Entry("terrain",     SurfaceDef(5, Fx(15, 10))),
       Entry("plasma",      SurfaceDef(6, Fx(20, 10))),
       Entry("wave",        SurfaceDef(7, Fx(5, 10))) >>

BASE_VIBE_MAP ==
    << Entry("stable",    VibeDef(Fx(10, 100),  Fx(2, 100),  Fx(95, 100), Fx(5, 100))),
       Entry("calm",      VibeDef(Fx(50, 100),  Fx(8, 100),  Fx(80, 100), Fx(15, 100))),
       Entry("agitated",  VibeDef(Fx(250, 100), Fx(20, 100), Fx(40, 100), Fx(60, 100))),
       Entry("chaotic",   VibeDef(Fx(500, 100), Fx(40, 100), Fx(5, 100),  Fx(150, 100))),
       Entry("breathing", VibeDef(Fx(8, 100),   Fx(5, 100),  Fx(98, 100), Fx(3, 100))),
       Entry("pulse",     VibeDef(Fx(120, 100), Fx(15, 100), Fx(60, 100), Fx(30, 100))),
       Entry("drift",     VibeDef(Fx(30, 100),  Fx(6, 100),  Fx(85, 100), Fx(10, 100))),
       Entry("storm",     VibeDef(Fx(400, 100), Fx(35, 100), Fx(10, 100), Fx(120, 100))),
       Entry("cinematic", VibeDef(Fx(20, 100),  Fx(12, 100), Fx(90, 100), Fx(8, 100))) >>

BASE_REACTIVITY_MAP ==
    << Entry("static",    ReactivityDef(0, Fx(0, 10),  Fx(0, 10))),
       Entry("magnetic",  ReactivityDef(1, Fx(5, 10),  Fx(20, 10))),
       Entry("repel",     ReactivityDef(2, Fx(5, 10),  Fx(20, 10))),
       Entry("shockwave", ReactivityDef(3, Fx(10, 10), Fx(40, 10))) >>

BASE_FIDELITY_MAP ==
    << Entry("low",    FidelityDef(64,  Fx(150, 100))),
       Entry("medium", FidelityDef(128, Fx(100, 100))),
       Entry("high",   FidelityDef(256, Fx(75, 100))),
       Entry("ultra",  FidelityDef(512, Fx(50, 100))) >>

BASE_PALETTE_MAP ==
    << Entry("monochrome", PaletteDef(hexToRGB(224, 224, 224), hexToRGB(255, 255, 255), hexToRGB(0, 0, 0))),
       Entry("ember",      PaletteDef(hexToRGB(255, 107, 53),  hexToRGB(255, 170, 0),   hexToRGB(10, 10, 10))),
       Entry("arctic",     PaletteDef(hexToRGB(136, 204, 255), hexToRGB(255, 255, 255), hexToRGB(5, 5, 16))),
       Entry("neon",       PaletteDef(hexToRGB(0, 255, 136),   hexToRGB(255, 0, 255),   hexToRGB(10, 10, 10))),
       Entry("phantom",    PaletteDef(hexToRGB(160, 160, 176), hexToRGB(96, 96, 160),   hexToRGB(8, 8, 12))),
       Entry("ocean",      PaletteDef(hexToRGB(0, 119, 182),   hexToRGB(0, 180, 216),   hexToRGB(3, 7, 30))),
       Entry("sunset",     PaletteDef(hexToRGB(247, 127, 0),   hexToRGB(214, 40, 40),   hexToRGB(13, 2, 8))),
       Entry("matrix",     PaletteDef(hexToRGB(0, 255, 65),    hexToRGB(0, 143, 17),    hexToRGB(0, 0, 0))),
       Entry("vapor",      PaletteDef(hexToRGB(255, 113, 206), hexToRGB(1, 205, 254),   hexToRGB(10, 0, 18))),
       Entry("gold",       PaletteDef(hexToRGB(255, 215, 0),   hexToRGB(218, 165, 32),  hexToRGB(10, 8, 0))),
       Entry("infrared",   PaletteDef(hexToRGB(255, 0, 85),    hexToRGB(255, 102, 0),   hexToRGB(10, 0, 5))),
       Entry("aurora",     PaletteDef(hexToRGB(67, 181, 129),  hexToRGB(114, 137, 218), hexToRGB(2, 8, 16))),
       Entry("midnight",   PaletteDef(hexToRGB(192, 192, 200), hexToRGB(74, 111, 165),  hexToRGB(10, 14, 26))) >>

\* new Map(Object.entries(BASE_..._MAP)) for the five categories
BaseRegistry ==
    [ surfaces     |-> BASE_SURFACE_MAP,
      vibes        |-> BASE_VIBE_MAP,
      reactivities |-> BASE_REACTIVITY_MAP,
      fidelities   |-> BASE_FIDELITY_MAP,
      palettes     |-> BASE_PALETTE_MAP ]

Categories == {"surfaces", "vibes", "reactivities", "fidelities", "palettes"}

\* Map.prototype.keys(): the names in insertion order
MapKeys(m) == [i \in DOMAIN m |-> m[i].name]

MapHas(m, n) == \E i \in DOMAIN m : m[i].name = n

\* Map.prototype.get(): <<>> stands for undefined, <<def>> for a definition
MapGet(m, n) ==
    IF MapHas(m, n) THEN <<m[CHOOSE i \in DOMAIN m : m[i].name = n].def>> ELSE <<>>

\* Map.prototype.set(): an existing key keeps its position, a new key is appended
MapSetMutAppend(m, n, d) == Append(m, Entry(n, d))
MapSet(m, n, d) ==
    IF MapHas(m, n)
    THEN [i \in DOMAIN m |-> IF m[i].name = n THEN Entry(n, d) ELSE m[i]]
    ELSE Append(m, Entry(n, d))

listTokens(reg) ==
    [ surfaces     |-> MapKeys(reg.surfaces),
      vibes        |-> MapKeys(reg.vibes),
      reactivities |-> MapKeys(reg.reactivities),
      fidelities   |-> MapKeys(reg.fidelities),
      palettes     |-> MapKeys(reg.palettes) ]

\* registerSurface, registerVibe, registerReactivity, registerFidelity, registerPalette
registerToken(reg, cat, n, d) == [reg EXCEPT ![cat] = MapSet(reg[cat], n, d)]

----------------------------------------------------------------------------
(* dictionary.ts: resolveConstants *)

DEFAULTS ==
    [ surface      |-> "topographic",
      vibe         |-> "calm",
      reactivity   |-> "static",
      fidelity     |-> "medium",
      palette      |-> "monochrome",
      wireframe    |-> TRUE,
      intensity    |-> Fx(1, 1),
      speed        |-> Fx(1, 1),
      contourLines |-> Fx(16, 1),
      thermalGuard |-> TRUE,
      angle        |-> 0,
      grain        |-> 0,
      glow         |-> 0,
      chromatic    |-> 0,
      vignette     |-> 0,
      blur         |-> 0 ]

\* config.f ?? DEFAULTS.f
OrDefault(c, f) == IF f \in DOMAIN c THEN c[f] ELSE DEFAULTS[f]

\* Math.max(min, Math.min(max, v))
clampMutLoose(v, min, max) == Max(min, Min(max + Scale, v))
clamp(v, min, max) == Max(min, Min(max, v))

\* the outcome of a call: a thrown TypeError (category, offending value and the
\* names the message lists) or the returned ShaderConstants
Throw(cat, val, names) ==
    [threw |-> TRUE, category |-> cat, value |-> val, expected |-> names, constants |-> <<>>]
Return(c) ==
    [threw |-> FALSE, category |-> "", value |-> "", expected |-> <<>>, constants |-> <<c>>]

\* getXRegistry().get(name) of the five lookups
lookupMutLenient(reg, cat, n) ==
    IF cat = "fidelities" /\ ~MapHas(reg[cat], n)
    THEN MapGet(reg[cat], DEFAULTS.fidelity)
    ELSE MapGet(reg[cat], n)
lookup(reg, cat, n) == MapGet(reg[cat], n)

resolveConstants(reg, config) ==
    LET surface    == OrDefault(config, "surface")
        vibe       == OrDefault(config, "vibe")
        reactivity == OrDefault(config, "reactivity")
        fidelity   == OrDefault(config, "fidelity")
        palette    == OrDefault(config, "palette")
        s == lookup(reg, "surfaces", surface)
        v == lookup(reg, "vibes", vibe)
        r == lookup(reg, "reactivities", reactivity)
        f == lookup(reg, "fidelities", fidelity)
        p == lookup(reg, "palettes", palette)
        available == listTokens(reg)
    IN  IF s = <<>> THEN Throw("surface", surface, available.surfaces)
        ELSE IF v = <<>> THEN Throw("vibe", vibe, available.vibes)
        ELSE IF r = <<>> THEN Throw("reactivity", reactivity, available.reactivities)
        ELSE IF f = <<>> THEN Throw("fidelity", fidelity, available.fidelities)
        ELSE IF p = <<>> THEN Throw("palette", palette, available.palettes)
        ELSE Return(
            [ surfaceMode        |-> s[1].mode,
              frequency          |-> v[1].frequency,
              amplitude          |-> v[1].amplitude,
              damping            |-> v[1].damping,
              noiseScale         |-> s[1].noiseScale,
              noiseSpeed         |-> v[1].noiseSpeed,
              reactivityMode     |-> r[1].mode,
              reactivityStrength |-> r[1].strength,
              reactivityRadius   |-> r[1].radius,
              segments           |-> f[1].segments,
              wireframeWidth     |-> f[1].wireframeWidth,
              primaryColor       |-> p[1].primary,
              accentColor        |-> p[1].accent,
              backgroundColor    |-> p[1].background,
              wireframe          |-> OrDefault(config, "wireframe"),
              intensity          |-> clamp(OrDefault(config, "intensity"), 0, Fx(2, 1)),
              speed              |-> clamp(OrDefault(config, "speed"), 0, Fx(5, 1)),
              contourLines       |-> clamp(OrDefault(config, "contourLines"), Fx(4, 1), Fx(64, 1)),
              angle              |-> clamp(OrDefault(config, "angle"), 0, Fx(360, 1)),
              grain              |-> clamp(OrDefault(config, "grain"), 0, Fx(1, 1)),
              glow               |-> clamp(OrDefault(config, "glow"), 0, Fx(2, 1)),
              chromatic          |-> clamp(OrDefault(config, "chromatic"), 0, Fx(1, 1)),
              vignette           |-> clamp(OrDefault(config, "vignette"), 0, Fx(1, 1)),
              blur               |-> clamp(OrDefault(config, "blur"), 0, Fx(1, 1)) ])

\* what a call leaves in the object it was handed: resolveConstants only reads config
configAfterResolveMutFill(config) ==
    [f \in DOMAIN config \cup {"surface"} |-> OrDefault(config, f)]
configAfterResolve(config) == config

----------------------------------------------------------------------------
(* Callers of the registry and of resolveConstants *)

TokenFields == {"surface", "vibe", "reactivity", "fidelity", "palette"}

\* the registry Map that validates each token field
FieldCat ==
    [ surface    |-> "surfaces",
      vibe       |-> "vibes",
      reactivity |-> "reactivities",
      fidelity   |-> "fidelities",
      palette    |-> "palettes" ]

Knobs == {"intensity", "speed", "contourLines", "angle", "grain", "glow",
          "chromatic", "vignette", "blur"}

\* the documented range of each continuous knob
KnobRange ==
    [ intensity    |-> <<0, Fx(2, 1)>>,
      speed        |-> <<0, Fx(5, 1)>>,
      contourLines |-> <<Fx(4, 1), Fx(64, 1)>>,
      angle        |-> <<0, Fx(360, 1)>>,
      grain        |-> <<0, Fx(1, 1)>>,
      glow         |-> <<0, Fx(2, 1)>>,
      chromatic    |-> <<0, Fx(1, 1)>>,
      vignette     |-> <<0, Fx(1, 1)>>,
      blur         |-> <<0, Fx(1, 1)>> ]

\* a name no built-in table holds
CustomName == "custom"

\* the definition a caller registers under a name of category cat
CustomDef(cat) ==
    CASE cat = "surfaces"     -> SurfaceDef(8, Fx(12, 10))
      [] cat = "vibes"        -> VibeDef(Fx(7, 10), Fx(3, 10), Fx(5, 10), Fx(2, 10))
      [] cat = "reactivities" -> ReactivityDef(1, Fx(8, 10), Fx(30, 10))
      [] cat = "fidelities"   -> FidelityDef(32, Fx(2, 1))
      [] cat = "palettes"     -> PaletteDef(hexToRGB(18, 52, 86), hexToRGB(171, 205, 239),
                                            hexToRGB(1, 2, 3))

\* token arguments: a built-in that is not the default, a runtime name, an unknown name
TokenInputs ==
    [ surface    |-> {"fluid", CustomName, "water"},
      vibe       |-> {"chaotic", CustomName, "angry"},
      reactivity |-> {"shockwave", CustomName, "explosive"},
      fidelity   |-> {"ultra", CustomName, "extreme"},
      palette    |-> {"neon", CustomName, "rainbow"} ]

\* knob arguments: just below the range, inside it, at its end and above it
KnobInputs(k) ==
    LET lo == KnobRange[k][1]
        hi == KnobRange[k][2]
    IN  {lo - 1, (lo + hi) \div 2, hi, hi + Scale}

\* how many entries of the registry are not those of the built-in tables
NumRegs(reg) ==
    Cardinality({<<cat, i>> \in Categories \X (1..20) :
                    /\ i \in DOMAIN reg[cat]
                    /\ (i \notin DOMAIN BaseRegistry[cat] \/ reg[cat][i] # BaseRegistry[cat][i])})

EmptyConfig == [f \in {} |-> 0]

WithField(c, f, v) == [x \in DOMAIN c \cup {f} |-> IF x = f THEN v ELSE c[x]]

ResolverInit ==
    /\ spring = <<>> /\ springOp = "none" /\ nsteps = 0
    /\ scaler = <<>> /\ note = <<>>
    /\ KernelIdle /\ ExtraIdle
    /\ registry = BaseRegistry
    /\ cfgIn = EmptyConfig
    /\ res = <<>>
    /\ reps = 0

\* the caller writes one field of the configuration object it will pass
SetField(f, v) ==
    /\ UNCHANGED <<springVars, scalerVars, kernelVars, extraVars>>
    /\ f \in DOMAIN cfgIn \/ Cardinality(DOMAIN cfgIn) < MaxFields
    /\ cfgIn' = WithField(cfgIn, f, v)
    /\ res' = <<>>
    /\ reps' = 0
    /\ UNCHANGED registry

SetTokenField == \E f \in TokenFields : \E v \in TokenInputs[f] : SetField(f, v)

SetKnobField == \E k \in Knobs : \E v \in KnobInputs(k) : SetField(k, v)

SetWireframeField == \E b \in BOOLEAN : SetField("wireframe", b)

ClearConfig ==
    /\ UNCHANGED <<springVars, scalerVars, kernelVars, extraVars>>
    /\ cfgIn # EmptyConfig
    /\ cfgIn' = EmptyConfig
    /\ res' = <<>>
    /\ reps' = 0
    /\ UNCHANGED registry

\* registerSurface(name, def) and its four siblings, with a new name
RegisterCustom ==
    \E cat \in Categories :
        /\ UNCHANGED <<springVars, scalerVars, kernelVars, extraVars>>
        /\ NumRegs(registry) < MaxRegs
        /\ registry' = registerToken(registry, cat, CustomName, CustomDef(cat))
        /\ registry' # registry
        /\ res' = <<>>
        /\ reps' = 0
        /\ UNCHANGED cfgIn

\* registerVibe over a built-in name: the last write wins
RegisterOverBuiltin ==
    /\ UNCHANGED <<springVars, scalerVars, kernelVars, extraVars>>
    /\ NumRegs(registry) < MaxRegs
    /\ registry' = registerToken(registry, "vibes", DEFAULTS.vibe, CustomDef("vibes"))
    /\ registry' # registry
    /\ res' = <<>>
    /\ reps' = 0
    /\ UNCHANGED cfgIn

\* resolveConstants(cfgIn)
Resolve ==
    /\ UNCHANGED <<springVars, scalerVars, kernelVars, extraVars>>
    /\ reps < MaxReps
    /\ res' = <<resolveConstants(registry, cfgIn)>>
    /\ cfgIn' = configAfterResolve(cfgIn)
    /\ reps' = reps + 1
    /\ UNCHANGED registry

ResolverNext ==
    \/ SetTokenField
    \/ SetKnobField
    \/ SetWireframeField
    \/ ClearConfig
    \/ RegisterCustom
    \/ RegisterOverBuiltin
    \/ Resolve

SpecResolve == ResolverInit /\ [][ResolverNext]_vars

----------------------------------------------------------------------------
(* Claims about resolveConstants *)

Registered(reg, f, c) == MapHas(reg[FieldCat[f]], OrDefault(c, f))

SeqRange(q) == {q[i] : i \in DOMAIN q}

\* C2: resolveConstants throws exactly when one of the five token fields names a
\* token its registry does not hold; the error names such a field, its value and
\* every name registered in that category, and no constants are returned.
UnknownTokenRejected ==
    res # <<>> =>
        /\ res[1].threw <=> \E f \in TokenFields : ~Registered(registry, f, cfgIn)
        /\ res[1].threw =>
            /\ res[1].constants = <<>>
            /\ res[1].category \in TokenFields
            /\ ~Registered(registry, res[1].category, cfgIn)
            /\ res[1].value = OrDefault(cfgIn, res[1].category)
            /\ LET m == registry[FieldCat[res[1].category]]
               IN  /\ Len(res[1].expected) = Len(m)
                   /\ SeqRange(res[1].expected) = {m[i].name : i \in DOMAIN m}
        /\ ~res[1].threw => Len(res[1].constants) = 1

UnknownTokenRejectedWitness ==
    /\ res # <<>>
    /\ res[1].threw
    /\ res[1].category = "fidelity"
    /\ res[1].value = "extreme"
    /\ CustomName \in SeqRange(res[1].expected)

KnobsClamped ==
    (res # <<>> /\ ~res[1].threw) =>
        \A k \in Knobs :
            LET v  == OrDefault(cfgIn, k)
                lo == KnobRange[k][1]
                hi == KnobRange[k][2]
            IN  res[1].constants[1][k] = IF v < lo THEN lo ELSE IF v > hi THEN hi ELSE v

KnobsClampedWitness ==
    /\ res # <<>>
    /\ ~res[1].threw
    /\ DOMAIN cfgIn = {"speed", "contourLines"}
    /\ cfgIn["speed"] > KnobRange["speed"][2]
    /\ cfgIn["contourLines"] < KnobRange["contourLines"][1]
    /\ res[1].constants[1].speed = Fx(5, 1)
    /\ res[1].constants[1].contourLines = Fx(4, 1)

----------------------------------------------------------------------------
(* spring.ts: Spring *)

DEFAULT_SPRING ==
    [ stiffness |-> 170,
      damping   |-> 26,
      mass      |-> 1,
      precision |-> Scale \div 1000 ]

\* a time step in seconds, as the fraction <<numerator, denominator>>
DtLess(a, b) == a[1] * b[2] < b[1] * a[2]

\* the ceiling on dt in step: 0.064 s
MaxDtMutLoose == <<1, 10>>
MaxDt == <<64, 1000>>

\* new Spring(initial, config)
NewSpring(initial, config) ==
    [ value    |-> initial,
      velocity |-> 0,
      target   |-> initial,
      settled  |-> TRUE,
      config   |-> config ]

\* Spring.setTarget(target)
SpringSetTargetMutAlwaysUnsettle(s, target) == [s EXCEPT !.target = target, !.settled = FALSE]
SpringSetTarget(s, target) ==
    IF target # s.target
    THEN [s EXCEPT !.target = target, !.settled = FALSE]
    ELSE s

\* Spring.snap(value)
SpringSnap(s, value) ==
    [s EXCEPT !.value = value, !.target = value, !.velocity = 0, !.settled = TRUE]

\* the settle check at the end of step
SettleMutKeepVelocity(s) ==
    IF Abs(s.velocity) < s.config.precision /\ Abs(s.value - s.target) < s.config.precision
    THEN [s EXCEPT !.value = s.target, !.settled = TRUE]
    ELSE s
Settle(s) ==
    IF Abs(s.velocity) < s.config.precision /\ Abs(s.value - s.target) < s.config.precision
    THEN [s EXCEPT !.value = s.target, !.velocity = 0, !.settled = TRUE]
    ELSE s

\* Spring.step(dt)
SpringStepMutUndamped(s, dt) ==
    IF s.settled THEN s
    ELSE
        LET safeDt       == IF DtLess(MaxDt, dt) THEN MaxDt ELSE dt
            displacement == s.value - s.target
            springForce  == -(s.config.stiffness * displacement)
            acceleration == springForce \div s.config.mass
            velocity     == s.velocity + MulDiv(acceleration, safeDt[1], safeDt[2])
            value        == s.value + MulDiv(velocity, safeDt[1], safeDt[2])
        IN  Settle([s EXCEPT !.velocity = velocity, !.value = value])
SpringStep(s, dt) ==
    IF s.settled THEN s
    ELSE
        LET safeDt       == IF DtLess(MaxDt, dt) THEN MaxDt ELSE dt
            displacement == s.value - s.target
            springForce  == -(s.config.stiffness * displacement)
            dampingForce == -(s.config.damping * s.velocity)
            acceleration == (springForce + dampingForce) \div s.config.mass
            velocity     == s.velocity + MulDiv(acceleration, safeDt[1], safeDt[2])
            value        == s.value + MulDiv(velocity, safeDt[1], safeDt[2])
        IN  Settle([s EXCEPT !.velocity = velocity, !.value = value])

----------------------------------------------------------------------------
(* Callers of one Spring *)

\* values a caller creates a spring at, snaps it to, or gives it as a target
SpringValues == {0, Fx(1, 10000), Fx(1, 1), Fx(10, 1)}

\* frame times: none, 1/60 s, the ceiling, and a resumed tab's 5 s
SpringDts == {<<0, 1>>, <<1, 60>>, <<64, 1000>>, <<5, 1>>}

SpringInit ==
    /\ \E v \in SpringValues : spring = NewSpring(v, DEFAULT_SPRING)
    /\ springOp = "new"
    /\ nsteps = 0
    /\ registry = BaseRegistry /\ cfgIn = EmptyConfig /\ res = <<>> /\ reps = 0
    /\ scaler = <<>> /\ note = <<>>
    /\ KernelIdle /\ ExtraIdle

SetTargetMutFromRest ==
    \E t \in SpringValues :
        /\ spring' = [SpringSetTarget(spring, t) EXCEPT !.velocity = 0]
        /\ springOp' = "setTarget"
        /\ UNCHANGED <<nsteps, resolverVars, scalerVars, kernelVars, extraVars>>
SetTarget ==
    \E t \in SpringValues :
        /\ spring' = SpringSetTarget(spring, t)
        /\ springOp' = "setTarget"
        /\ UNCHANGED <<nsteps, resolverVars, scalerVars, kernelVars, extraVars>>

Snap ==
    \E v \in SpringValues :
        /\ spring' = SpringSnap(spring, v)
        /\ springOp' = "snap"
        /\ UNCHANGED <<nsteps, resolverVars, scalerVars, kernelVars, extraVars>>

StepMutUnsettles ==
    \E dt \in SpringDts :
        /\ nsteps < MaxSpringSteps
        /\ spring' = [SpringStep([spring EXCEPT !.settled = FALSE], dt) EXCEPT !.settled = FALSE]
        /\ springOp' = "step"
        /\ nsteps' = nsteps + 1
        /\ UNCHANGED <<resolverVars, scalerVars, kernelVars, extraVars>>
Step ==
    \E dt \in SpringDts :
        /\ nsteps < MaxSpringSteps
        /\ spring' = SpringStep(spring, dt)
        /\ springOp' = "step"
        /\ nsteps' = nsteps + 1
        /\ UNCHANGED <<resolverVars, scalerVars, kernelVars, extraVars>>

SpringNext == SetTarget \/ Snap \/ Step

SpecSpring == SpringInit /\ [][SpringNext]_vars

\* the settling run of the test suite: new Spring(0), setTarget(10), step(1/60) ...
SettleSteps == 300

SettleInit ==
    /\ spring = NewSpring(0, DEFAULT_SPRING)
    /\ springOp = "new"
    /\ nsteps = 0
    /\ registry = BaseRegistry /\ cfgIn = EmptyConfig /\ res = <<>> /\ reps = 0
    /\ scaler = <<>> /\ note = <<>>
    /\ KernelIdle /\ ExtraIdle

SettleSetTarget ==
    /\ springOp = "new"
    /\ spring' = SpringSetTarget(spring, Fx(10, 1))
    /\ springOp' = "setTarget"
    /\ UNCHANGED <<nsteps, resolverVars, scalerVars, kernelVars, extraVars>>

SettleStep ==
    /\ springOp # "new"
    /\ nsteps < SettleSteps + MaxExtraSteps
    /\ spring' = SpringStep(spring, <<1, 60>>)
    /\ springOp' = "step"
    /\ nsteps' = nsteps + 1
    /\ UNCHANGED <<resolverVars, scalerVars, kernelVars, extraVars>>

SettleNext == SettleSetTarget \/ SettleStep

SpecSettle == SettleInit /\ [][SettleNext]_vars

----------------------------------------------------------------------------
(* Claims about Spring *)

AtRest(s) == s.velocity = 0 /\ s.value = s.target

\* C5 as stated: settled is true if and only if velocity is exactly 0 and value is
\* exactly equal to target.
SettledIffAtRest == spring.settled <=> AtRest(spring)

\* C5 as amended: settled implies velocity exactly 0 and value exactly equal to
\* target; the converse holds in every state a step call leaves.
SettledImpliesAtRest ==
    /\ spring.settled => AtRest(spring)
    /\ (springOp = "step" /\ AtRest(spring)) => spring.settled

SettledImpliesAtRestWitness ==
    /\ springOp = "step"
    /\ spring.settled
    /\ spring.target = Fx(1, 10000)
    /\ nsteps = 1

\* C6: a default spring created at 0 with target 10 and stepped with dt = 1/60 s
\* is settled with value exactly 10 after at most 300 steps, and stays there.
SettlesWithin300 ==
    nsteps >= SettleSteps => (spring.settled /\ spring.value = Fx(10, 1))

SettlesWithin300Witness ==
    /\ nsteps = SettleSteps + 1
    /\ spring.settled
    /\ spring.value = Fx(10, 1)
    /\ spring.target = Fx(10, 1)

----------------------------------------------------------------------------
(* auto-scaler.ts: AutoScaler.  Frame times are in microseconds (16.6 ms is *)
(* 16600); an average is compared as sum against bound * window, exactly.   *)

FIDELITY_LADDER == <<"low", "medium", "high", "ultra">>

\* FIDELITY_LADDER.indexOf(f): a position from 0, or -1
LadderIndexOf(f) ==
    IF \E i \in DOMAIN FIDELITY_LADDER : FIDELITY_LADDER[i] = f
    THEN (CHOOSE i \in DOMAIN FIDELITY_LADDER : FIDELITY_LADDER[i] = f) - 1
    ELSE -1

\* the defaults of the constructor's options
DefaultTargetFrameTime == 16600
DefaultSampleWindow == 30
DefaultDowngradeThreshold == 20
DefaultUpgradeThreshold == 60

DefaultScalerOptions ==
    [ targetFrameTime    |-> DefaultTargetFrameTime,
      sampleWindow       |-> DefaultSampleWindow,
      downgradeThreshold |-> DefaultDowngradeThreshold,
      upgradeThreshold   |-> DefaultUpgradeThreshold,
      enabled            |-> TRUE ]

\* new AutoScaler(initialFidelity, options), options already merged with the defaults
NewAutoScaler(initialFidelity, options) ==
    [ targetFrameTime    |-> options.targetFrameTime,
      sampleWindow       |-> options.sampleWindow,
      downgradeThreshold |-> options.downgradeThreshold,
      upgradeThreshold   |-> options.upgradeThreshold,
      enabled            |-> options.enabled,
      frameTimes         |-> [i \in 1..options.sampleWindow |-> 0],
      frameIndex         |-> 0,
      frameCount         |-> 0,
      runningSum         |-> 0,
      consecutiveBad     |-> 0,
      consecutiveGood    |-> 0,
      currentIndex       |-> IF LadderIndexOf(initialFidelity) = -1
                             THEN 1 ELSE LadderIndexOf(initialFidelity),
      hasCallback        |-> FALSE ]

\* get currentFidelity
currentFidelity(s) == FIDELITY_LADDER[s.currentIndex + 1]

\* resetBuffer()
resetBufferMutKeepSum(s) ==
    [s EXCEPT !.frameTimes = [i \in DOMAIN s.frameTimes |-> 0],
              !.frameIndex = 0, !.frameCount = 0]
resetBuffer(s) ==
    [s EXCEPT !.frameTimes = [i \in DOMAIN s.frameTimes |-> 0],
              !.frameIndex = 0, !.frameCount = 0, !.runningSum = 0]

\* avg > targetFrameTime * 1.15 and avg < targetFrameTime * 0.75
RunningSlowMutNoMargin(s) == s.runningSum * 100 >= s.targetFrameTime * 100 * s.sampleWindow
RunningSlow(s) == s.runningSum * 100 > s.targetFrameTime * 115 * s.sampleWindow
RunningFast(s) == s.runningSum * 100 < s.targetFrameTime * 75 * s.sampleWindow

\* the guards of the two transitions
CanDowngradeMutLate(s) == s.consecutiveBad > s.downgradeThreshold /\ s.currentIndex > 0
CanDowngrade(s) == s.consecutiveBad >= s.downgradeThreshold /\ s.currentIndex > 0

CanUpgradeMutEager(s) ==
    s.consecutiveGood >= 1 /\ s.currentIndex < Len(FIDELITY_LADDER) - 1
CanUpgrade(s) ==
    s.consecutiveGood >= s.upgradeThreshold /\ s.currentIndex < Len(FIDELITY_LADDER) - 1

\* this.currentIndex--; this.consecutiveBad = 0
DowngradedMutToFloor(s) == [s EXCEPT !.currentIndex = 0, !.consecutiveBad = 0]
Downgraded(s) == [s EXCEPT !.currentIndex = @ - 1, !.consecutiveBad = 0]

\* this.currentIndex++; this.consecutiveGood = 0
UpgradedMutKeepStreak(s) == [s EXCEPT !.currentIndex = @ + 1]
Upgraded(s) == [s EXCEPT !.currentIndex = @ + 1, !.consecutiveGood = 0]

\* a call's effect: the object after it and the onFidelityChange call it made
ScalerResult(s, n) == [scaler |-> s, notify |-> n]

\* this.onFidelityChange?.(this.currentFidelity)
Notify(s) == ScalerResult(s, IF s.hasCallback THEN <<currentFidelity(s)>> ELSE <<>>)

\* AutoScaler.reportFrame(deltaMs)
reportFrameMutKeepStreaks(s, deltaMs) ==
    IF ~s.enabled THEN ScalerResult(s, <<>>)
    ELSE
        LET evicted == IF s.frameCount >= s.sampleWindow
                       THEN s.frameTimes[s.frameIndex + 1] ELSE 0
            s1 == [s EXCEPT
                     !.runningSum = s.runningSum - evicted + deltaMs,
                     !.frameTimes = [s.frameTimes EXCEPT ![s.frameIndex + 1] = deltaMs],
                     !.frameIndex = (s.frameIndex + 1) % s.sampleWindow,
                     !.frameCount = IF s.frameCount < s.sampleWindow
                                    THEN s.frameCount + 1 ELSE s.frameCount]
        IN  IF s1.frameCount < s1.sampleWindow THEN ScalerResult(s1, <<>>)
            ELSE IF RunningSlow(s1) THEN
                LET s2 == [s1 EXCEPT !.consecutiveBad = @ + 1, !.consecutiveGood = 0]
                IN  IF CanDowngrade(s2)
                    THEN Notify(resetBuffer(Downgraded(s2)))
                    ELSE ScalerResult(s2, <<>>)
            ELSE IF RunningFast(s1) THEN
                LET s2 == [s1 EXCEPT !.consecutiveGood = @ + 1, !.consecutiveBad = 0]
                IN  IF CanUpgrade(s2)
                    THEN Notify(resetBuffer(Upgraded(s2)))
                    ELSE ScalerResult(s2, <<>>)
            ELSE ScalerResult(s1, <<>>)
reportFrame(s, deltaMs) ==
    IF ~s.enabled THEN ScalerResult(s, <<>>)
    ELSE
        LET evicted == IF s.frameCount >= s.sampleWindow
                       THEN s.frameTimes[s.frameIndex + 1] ELSE 0
            s1 == [s EXCEPT
                     !.runningSum = s.runningSum - evicted + deltaMs,
                     !.frameTimes = [s.frameTimes EXCEPT ![s.frameIndex + 1] = deltaMs],
                     !.frameIndex = (s.frameIndex + 1) % s.sampleWindow,
                     !.frameCount = IF s.frameCount < s.sampleWindow
                                    THEN s.frameCount + 1 ELSE s.frameCount]
        IN  IF s1.frameCount < s1.sampleWindow THEN ScalerResult(s1, <<>>)
            ELSE IF RunningSlow(s1) THEN
                LET s2 == [s1 EXCEPT !.consecutiveBad = @ + 1, !.consecutiveGood = 0]
                IN  IF CanDowngrade(s2)
                    THEN Notify(resetBuffer(Downgraded(s2)))
                    ELSE ScalerResult(s2, <<>>)
            ELSE IF RunningFast(s1) THEN
                LET s2 == [s1 EXCEPT !.consecutiveGood = @ + 1, !.consecutiveBad = 0]
                IN  IF CanUpgrade(s2)
                    THEN Notify(resetBuffer(Upgraded(s2)))
                    ELSE ScalerResult(s2, <<>>)
            ELSE ScalerResult([s1 EXCEPT !.consecutiveBad = 0, !.consecutiveGood = 0], <<>>)

\* AutoScaler.setEnabled(enabled)
setEnabledMutPartialReset(s, enabled) ==
    IF ~enabled
    THEN [s EXCEPT !.enabled = FALSE, !.runningSum = 0,
                   !.consecutiveBad = 0, !.consecutiveGood = 0]
    ELSE [s EXCEPT !.enabled = TRUE]
setEnabled(s, enabled) ==
    IF ~enabled
    THEN [resetBuffer(s) EXCEPT !.enabled = FALSE, !.consecutiveBad = 0, !.consecutiveGood = 0]
    ELSE [s EXCEPT !.enabled = TRUE]

\* AutoScaler.dispose()
scalerDispose(s) == [resetBuffer(s) EXCEPT !.hasCallback = FALSE]

----------------------------------------------------------------------------
(* Callers of one AutoScaler *)

SmallScalerOptions ==
    [ targetFrameTime    |-> DefaultTargetFrameTime,
      sampleWindow       |-> SmallWindow,
      downgradeThreshold |-> SmallDowngrade,
      upgradeThreshold   |-> SmallUpgrade,
      enabled            |-> TRUE ]

\* frame durations: 8 ms, the 16.6 ms target, 25 ms
FrameInputs == {8000, DefaultTargetFrameTime, 25000}

\* the streak counters stay within the model's bound
StreaksBounded(s) == s.consecutiveBad < MaxStreak /\ s.consecutiveGood < MaxStreak

ScalerInit ==
    /\ \E f \in {"low", "medium", "high", "ultra", CustomName} : \E e \in BOOLEAN :
          scaler = [NewAutoScaler(f, [SmallScalerOptions EXCEPT !.enabled = e])
                        EXCEPT !.hasCallback = TRUE]
    /\ note = <<>>
    /\ registry = BaseRegistry /\ cfgIn = EmptyConfig /\ res = <<>> /\ reps = 0
    /\ spring = <<>> /\ springOp = "none" /\ nsteps = 0
    /\ KernelIdle /\ ExtraIdle

ReportFrame ==
    \E d \in FrameInputs :
        /\ StreaksBounded(scaler)
        /\ scaler' = reportFrame(scaler, d).scaler
        /\ note' = reportFrame(scaler, d).notify
        /\ UNCHANGED <<resolverVars, springVars, kernelVars, extraVars>>

SetEnabled ==
    \E e \in BOOLEAN :
        /\ scaler' = setEnabled(scaler, e)
        /\ note' = <<>>
        /\ UNCHANGED <<resolverVars, springVars, kernelVars, extraVars>>

ScalerNext == ReportFrame \/ SetEnabled

SpecScaler == ScalerInit /\ [][ScalerNext]_vars

----------------------------------------------------------------------------
(* Claims about AutoScaler *)

\* C10: the current tier is always one of low, medium, high, ultra, and a single
\* reportFrame call moves it by at most one position of that ladder.
TierStepsByOne ==
    /\ [](scaler.currentIndex \in 0..(Len(FIDELITY_LADDER) - 1))
    /\ [][Abs(scaler'.currentIndex - scaler.currentIndex) <= 1]_vars

TierStepsByOneWitness ==
    /\ scaler.currentIndex = 0
    /\ note = <<"low">>
    /\ scaler.enabled

----------------------------------------------------------------------------
(* SMNTCKernel.ts.  Times are in microseconds where the code uses ms and in *)
(* fixed-point seconds where it uses seconds.                               *)

SpringKeys ==
    {"frequency", "amplitude", "noiseScale", "noiseSpeed", "intensity", "speed",
     "contourLines", "reactivityStrength", "reactivityRadius", "wireframeWidth",
     "primaryR", "primaryG", "primaryB", "accentR", "accentG", "accentB",
     "angle", "grain", "glow", "chromatic", "vignette", "blur"}

\* degrees * Math.PI / 180, with pi as 355/113
DegToRad(a) == MulDiv(a, 355, 20340)

\* the value each spring is created at or aimed at for the constants c
SpringTargets(c) ==
    [ frequency          |-> c.frequency,
      amplitude          |-> c.amplitude,
      noiseScale         |-> c.noiseScale,
      noiseSpeed         |-> c.noiseSpeed,
      intensity          |-> c.intensity,
      speed              |-> c.speed,
      contourLines       |-> c.contourLines,
      reactivityStrength |-> c.reactivityStrength,
      reactivityRadius   |-> c.reactivityRadius,
      wireframeWidth     |-> c.wireframeWidth,
      primaryR           |-> c.primaryColor[1],
      primaryG           |-> c.primaryColor[2],
      primaryB           |-> c.primaryColor[3],
      accentR            |-> c.accentColor[1],
      accentG            |-> c.accentColor[2],
      accentB            |-> c.accentColor[3],
      angle              |-> DegToRad(c.angle),
      grain              |-> c.grain,
      glow               |-> c.glow,
      chromatic          |-> c.chromatic,
      vignette           |-> c.vignette,
      blur               |-> c.blur ]

\* the cached spring references _sp, each spring created at its constant
initializeSpringTargets(c) ==
    [key \in SpringKeys |-> NewSpring(SpringTargets(c)[key], DEFAULT_SPRING)]

pushSpringTargets(sp, c) ==
    [key \in SpringKeys |-> SpringSetTarget(sp[key], SpringTargets(c)[key])]

\* the uniforms a spring drives are kept in the field driven, by spring key
writeSpringValuesToUniforms(u, sp) ==
    [u EXCEPT !.driven = [key \in SpringKeys |-> sp[key].value]]

createUniforms(c) ==
    [ uTime            |-> 0,
      uSurfaceMode     |-> c.surfaceMode,
      uReactivityMode  |-> c.reactivityMode,
      uShockTime       |-> Fx(100, 1),
      uBackgroundColor |-> c.backgroundColor,
      uWireframe       |-> IF c.wireframe THEN Fx(1, 1) ELSE 0,
      driven           |-> SpringTargets(c) ]

\* SpringBank.step(dt): every spring still in the bank's map
bankStep(sp, bank, dt) ==
    [key \in SpringKeys |-> IF key \in bank THEN SpringStep(sp[key], dt) ELSE sp[key]]

\* SpringBank.setTarget(key, target); a key no longer in the map gets a new
\* spring there, which _sp does not refer to
bankSetTarget(sp, bank, key, target) ==
    IF key \in bank THEN [sp EXCEPT ![key] = SpringSetTarget(sp[key], target)] ELSE sp

\* three's Clock as the kernel uses it: new Clock(false), start, stop, getDelta
NewClock == [autoStart |-> FALSE, running |-> FALSE, elapsedTime |-> 0]

ClockStart(c) == [c EXCEPT !.running = TRUE, !.elapsedTime = 0]

ClockStop(c) == [c EXCEPT !.running = FALSE, !.autoStart = FALSE]

\* getDelta() when us microseconds have passed since the last reading
ClockGetDelta(c, us) ==
    IF c.autoStart /\ ~c.running THEN [clock |-> ClockStart(c), diff |-> 0]
    ELSE IF c.running
         THEN [clock |-> [c EXCEPT !.elapsedTime = @ + us \div 10], diff |-> us]
         ELSE [clock |-> c, diff |-> 0]

\* microseconds as a fraction of a second
FrameDt(us) == <<us \div 200, 5000>>

\* new InputProxy(options): the listeners it adds
NewInputProxy(enableShockwave) ==
    [ disposed        |-> FALSE,
      enableShockwave |-> enableShockwave,
      pointermove     |-> TRUE,
      pointerdown     |-> enableShockwave,
      resize          |-> TRUE,
      shockStartTime  |-> -Fx(100, 1) ]

\* InputProxy.dispose()
proxyDispose(p) ==
    [p EXCEPT !.disposed = TRUE, !.pointermove = FALSE, !.pointerdown = FALSE,
              !.resize = FALSE]

\* InputProxy.update(time): the uniforms it writes (the raycast hit is not modelled)
proxyUpdate(p, u, time) ==
    IF p.disposed THEN u
    ELSE IF p.enableShockwave THEN [u EXCEPT !.uShockTime = time - p.shockStartTime]
    ELSE u

NoProxy == 0

\* this.inputProxy?.dispose()
disposeCurrentProxy(kn, px) ==
    IF kn.inputProxy = NoProxy THEN px
    ELSE [px EXCEPT ![kn.inputProxy] = proxyDispose(px[kn.inputProxy])]

\* the outcome of a call on the kernel: the kernel, the proxies and the pending
\* animation frames it leaves, and whether it threw
Ok(kn, px, pd) == [kernel |-> kn, proxies |-> px, pending |-> pd, threw |-> FALSE]
Thrown(kn, px, pd) == [kernel |-> kn, proxies |-> px, pending |-> pd, threw |-> TRUE]

\* new SMNTCKernel(options), options holding registered tokens
NewKernel(reg, options) ==
    LET config    == [f \in DOMAIN DEFAULTS |-> OrDefault(options.config, f)]
        constants == resolveConstants(reg, config).constants[1]
    IN  [ config            |-> config,
          constants         |-> constants,
          uniforms          |-> createUniforms(constants),
          materialDisposed  |-> FALSE,
          clock             |-> NewClock,
          springs           |-> initializeSpringTargets(constants),
          bank              |-> SpringKeys,
          autoScaler        |-> [NewAutoScaler(config.fidelity,
                                    [DefaultScalerOptions EXCEPT
                                        !.enabled = ~options.disableAutoScale])
                                  EXCEPT !.hasCallback = TRUE],
          mesh              |-> FALSE,
          camera            |-> options.camera,
          domElement        |-> options.domElement,
          inputProxy        |-> NoProxy,
          visibilityHandler |-> config.thermalGuard,
          animating         |-> FALSE,
          animationId       |-> 0,
          disposed          |-> FALSE,
          lastFrameTime     |-> FALSE ]

\* the autoScaler.onFidelityChange callback of the constructor
onFidelityChangeMutSnap(reg, kn, px, pd, fidelity) ==
    LET k1 == [kn EXCEPT !.config.fidelity = fidelity]
        r  == resolveConstants(reg, k1.config)
    IN  IF r.threw THEN Thrown(k1, px, pd)
        ELSE Ok([k1 EXCEPT
                    !.constants.segments = r.constants[1].segments,
                    !.constants.wireframeWidth = r.constants[1].wireframeWidth,
                    !.springs = [k1.springs EXCEPT !["wireframeWidth"] =
                                    SpringSnap(@, r.constants[1].wireframeWidth)]],
                px, pd)
onFidelityChange(reg, kn, px, pd, fidelity) ==
    LET k1 == [kn EXCEPT !.config.fidelity = fidelity]
        r  == resolveConstants(reg, k1.config)
    IN  IF r.threw THEN Thrown(k1, px, pd)
        ELSE Ok([k1 EXCEPT
                    !.constants.segments = r.constants[1].segments,
                    !.constants.wireframeWidth = r.constants[1].wireframeWidth,
                    !.springs = bankSetTarget(k1.springs, k1.bank, "wireframeWidth",
                                              r.constants[1].wireframeWidth)],
                px, pd)

\* apply(mesh, camera, domElement); camera and domElement say whether one is passed
apply(kn, px, pd, camera, domElement) ==
    LET cam == camera \/ kn.camera
        dom == domElement \/ kn.domElement
        k1  == [kn EXCEPT !.mesh = TRUE]
    IN  IF kn.config.reactivity # "static" /\ cam /\ dom
        THEN Ok([k1 EXCEPT !.camera = TRUE, !.domElement = TRUE,
                           !.inputProxy = Len(px) + 1],
                Append(px, NewInputProxy(kn.config.reactivity = "shockwave")), pd)
        ELSE Ok(k1, px, pd)

setVibe(reg, kn, px, pd, vibe) ==
    LET k1 == [kn EXCEPT !.config.vibe = vibe]
        r  == resolveConstants(reg, k1.config)
    IN  IF r.threw THEN Thrown(k1, px, pd)
        ELSE Ok([k1 EXCEPT !.springs = pushSpringTargets(k1.springs, r.constants[1])], px, pd)

setSurface(reg, kn, px, pd, surface) ==
    LET k1 == [kn EXCEPT !.config.surface = surface]
        r  == resolveConstants(reg, k1.config)
    IN  IF r.threw THEN Thrown(k1, px, pd)
        ELSE Ok([k1 EXCEPT !.uniforms.uSurfaceMode = r.constants[1].surfaceMode,
                           !.springs = pushSpringTargets(k1.springs, r.constants[1])],
                px, pd)

setReactivity(reg, kn, px, pd, reactivity) ==
    LET k1 == [kn EXCEPT !.config.reactivity = reactivity]
        r  == resolveConstants(reg, k1.config)
        k2 == [k1 EXCEPT !.uniforms.uReactivityMode = r.constants[1].reactivityMode,
                         !.springs = pushSpringTargets(k1.springs, r.constants[1])]
        px1 == disposeCurrentProxy(k2, px)
    IN  IF r.threw THEN Thrown(k1, px, pd)
        ELSE IF k2.mesh /\ k2.camera /\ k2.domElement
        THEN IF reactivity # "static"
             THEN Ok([k2 EXCEPT !.inputProxy = Len(px1) + 1],
                     Append(px1, NewInputProxy(reactivity = "shockwave")), pd)
             ELSE Ok([k2 EXCEPT !.inputProxy = NoProxy], px1, pd)
        ELSE Ok(k2, px, pd)

setPalette(reg, kn, px, pd, palette) ==
    LET k1 == [kn EXCEPT !.config.palette = palette]
        r  == resolveConstants(reg, k1.config)
    IN  IF r.threw THEN Thrown(k1, px, pd)
        ELSE Ok([k1 EXCEPT !.springs = pushSpringTargets(k1.springs, r.constants[1])], px, pd)

\* configure(config): Object.assign, then the discrete uniforms and the targets
configure(reg, kn, px, pd, config) ==
    LET k1 == [kn EXCEPT !.config = [f \in DOMAIN kn.config |->
                                        IF f \in DOMAIN config THEN config[f]
                                        ELSE kn.config[f]]]
        r  == resolveConstants(reg, k1.config)
    IN  IF r.threw THEN Thrown(k1, px, pd)
        ELSE Ok([k1 EXCEPT
                    !.uniforms.uSurfaceMode = r.constants[1].surfaceMode,
                    !.uniforms.uReactivityMode = r.constants[1].reactivityMode,
                    !.uniforms.uWireframe = IF r.constants[1].wireframe THEN Fx(1, 1) ELSE 0,
                    !.springs = pushSpringTargets(k1.springs, r.constants[1])],
                px, pd)

\* update(), us microseconds after the previous frame
updateMutReportFirst(reg, kn, px, pd, us) ==
    IF kn.disposed THEN Ok(kn, px, pd)
    ELSE
        LET rep     == reportFrame(kn.autoScaler, us)
            k0      == IF ~kn.lastFrameTime THEN kn ELSE [kn EXCEPT !.autoScaler = rep.scaler]
            kA      == IF ~kn.lastFrameTime \/ rep.notify = <<>> THEN k0
                       ELSE onFidelityChange(reg, k0, px, pd, rep.notify[1]).kernel
            g       == ClockGetDelta(kA.clock, us)
            elapsed == g.clock.elapsedTime
            sp      == bankStep(kA.springs, kA.bank, FrameDt(g.diff))
            u1      == [writeSpringValuesToUniforms(kA.uniforms, sp) EXCEPT !.uTime = elapsed]
            u2      == IF kA.inputProxy = NoProxy THEN u1
                       ELSE proxyUpdate(px[kA.inputProxy], u1, elapsed)
        IN  Ok([kA EXCEPT !.clock = g.clock, !.springs = sp, !.uniforms = u2,
                          !.lastFrameTime = TRUE], px, pd)
update(reg, kn, px, pd, us) ==
    IF kn.disposed THEN Ok(kn, px, pd)
    ELSE
        LET g       == ClockGetDelta(kn.clock, us)
            elapsed == g.clock.elapsedTime
            sp      == bankStep(kn.springs, kn.bank, FrameDt(g.diff))
            u1      == [writeSpringValuesToUniforms(kn.uniforms, sp) EXCEPT !.uTime = elapsed]
            u2      == IF kn.inputProxy = NoProxy THEN u1
                       ELSE proxyUpdate(px[kn.inputProxy], u1, elapsed)
            k1      == [kn EXCEPT !.clock = g.clock, !.springs = sp, !.uniforms = u2]
            rep     == reportFrame(k1.autoScaler, us)
            k2      == [k1 EXCEPT !.autoScaler = rep.scaler]
            cb      == onFidelityChange(reg, k2, px, pd, rep.notify[1])
        IN  IF ~kn.lastFrameTime THEN Ok([k1 EXCEPT !.lastFrameTime = TRUE], px, pd)
            ELSE IF rep.notify = <<>> THEN Ok([k2 EXCEPT !.lastFrameTime = TRUE], px, pd)
            ELSE IF cb.threw THEN cb
            ELSE Ok([cb.kernel EXCEPT !.lastFrameTime = TRUE], px, pd)

\* requestAnimationFrame: an id no pending callback and no stored handle uses
NewFrameId(kn, pd) == CHOOSE i \in 1..(Cardinality(pd) + 2) : i \notin pd /\ i # kn.animationId

\* start(renderer, scene, camera); renderer says whether the three are passed
start(kn, px, pd, renderer) ==
    IF kn.animating THEN Ok(kn, px, pd)
    ELSE
        LET k1 == [kn EXCEPT !.animating = TRUE, !.clock = ClockStart(kn.clock)]
            id == NewFrameId(k1, pd)
        IN  IF renderer
            THEN Ok([k1 EXCEPT !.animationId = id], px, pd \cup {id})
            ELSE Ok([k1 EXCEPT !.clock = ClockStart(k1.clock)], px, pd)

stopMutNoCancel(kn, px, pd) ==
    Ok([kn EXCEPT !.animating = FALSE, !.animationId = 0, !.clock = ClockStop(kn.clock)],
       px, pd)
stop(kn, px, pd) ==
    Ok([kn EXCEPT !.animating = FALSE, !.animationId = 0, !.clock = ClockStop(kn.clock)],
       px, IF kn.animationId # 0 THEN pd \ {kn.animationId} ELSE pd)

\* the loop closure of start, run by the browser for the pending callback id
loop(reg, kn, px, pd, id, us) ==
    LET pd1 == pd \ {id}
        nid == NewFrameId(kn, pd1)
    IN  IF ~kn.animating \/ kn.disposed THEN Ok(kn, px, pd1)
        ELSE update(reg, [kn EXCEPT !.animationId = nid], px, pd1 \cup {nid}, us)

\* the visibilitychange handler of the thermal guard
visibilityHandler(kn, hidden) ==
    [kn EXCEPT !.clock = IF hidden THEN ClockStop(kn.clock) ELSE ClockStart(kn.clock)]

dispose(kn, px, pd) ==
    LET st == stop([kn EXCEPT !.disposed = TRUE], px, pd)
        k1 == st.kernel
    IN  Ok([k1 EXCEPT !.materialDisposed = TRUE,
                      !.autoScaler = scalerDispose(k1.autoScaler),
                      !.bank = {},
                      !.visibilityHandler = FALSE,
                      !.mesh = FALSE,
                      !.camera = FALSE,
                      !.domElement = FALSE],
           disposeCurrentProxy(k1, px), st.pending)

\* getConfig()
getConfig(kn) == kn.config

\* getBackgroundColor(): read from the constants the kernel holds
getBackgroundColor(kn) == kn.constants.backgroundColor

----------------------------------------------------------------------------
(* Callers of one SMNTCKernel *)

\* constructor options: the reactivity token and whether a camera and a DOM
\* element are passed, with the auto-scaler switched off
KernelOptions ==
    { [config |-> [reactivity |-> r], camera |-> v, domElement |-> v,
       disableAutoScale |-> TRUE] : r \in {"static", "shockwave"}, v \in BOOLEAN }

\* setter arguments: a built-in that is not the default and an unknown name
SetterInputs ==
    [ surface    |-> {"fluid", "water"},
      vibe       |-> {"chaotic", "angry"},
      reactivity |-> {"static", "magnetic", "shockwave", "explosive"},
      palette    |-> {"neon", "rainbow"} ]

\* configure arguments
ConfigureInputs ==
    << [vibe |-> "agitated"],
       [palette |-> "rainbow"],
       [surface |-> "fluid", wireframe |-> FALSE] >>

\* the frame duration of the machine: the 16.6 ms target
KernelFrames == {DefaultTargetFrameTime}

KernelInitWith(options) ==
    /\ registry = BaseRegistry /\ cfgIn = EmptyConfig /\ res = <<>> /\ reps = 0
    /\ spring = <<>> /\ springOp = "none" /\ nsteps = 0
    /\ scaler = <<>> /\ note = <<>>
    /\ kernel = NewKernel(registry, options)
    /\ proxies = <<>>
    /\ pending = {}
    /\ call = [op |-> "new", arg |-> "", valid |-> TRUE, threw |-> FALSE]
    /\ env = [mesh |-> FALSE, view |-> options.camera /\ options.domElement, hidden |-> FALSE]
    /\ ncalls = 0
    /\ ExtraIdle

KernelInit == \E options \in KernelOptions : KernelInitWith(options)

\* a call returns or throws: what it leaves behind.  valid says whether every
\* token the call was handed is registered.
Called(op, arg, valid, out) ==
    /\ kernel' = out.kernel
    /\ proxies' = out.proxies
    /\ pending' = out.pending
    /\ call' = [op |-> op, arg |-> arg, valid |-> valid, threw |-> out.threw]
    /\ UNCHANGED <<resolverVars, springVars, scalerVars, extraVars>>

\* one more of the calls a behaviour is allowed
Counted ==
    /\ ncalls < MaxCalls
    /\ ncalls' = ncalls + 1

\* are the tokens of the partial configuration config all registered
TokensRegistered(reg, config) ==
    \A f \in TokenFields \cap DOMAIN config : MapHas(reg[FieldCat[f]], config[f])

Apply ==
    \E view \in BOOLEAN :
        /\ Called("apply", "", TRUE, apply(kernel, proxies, pending, view, view))
        /\ Counted
        /\ env' = [env EXCEPT !.mesh = TRUE, !.view = @ \/ view]

SetVibeTo(v) ==
    /\ Called("setVibe", v, MapHas(registry.vibes, v),
              setVibe(registry, kernel, proxies, pending, v))
    /\ UNCHANGED env

SetSurfaceTo(v) ==
    /\ Called("setSurface", v, MapHas(registry.surfaces, v),
              setSurface(registry, kernel, proxies, pending, v))
    /\ UNCHANGED env

SetReactivityTo(v) ==
    /\ Called("setReactivity", v, MapHas(registry.reactivities, v),
              setReactivity(registry, kernel, proxies, pending, v))
    /\ UNCHANGED env

SetPaletteTo(v) ==
    /\ Called("setPalette", v, MapHas(registry.palettes, v),
              setPalette(registry, kernel, proxies, pending, v))
    /\ UNCHANGED env

ConfigureWith(config) ==
    /\ Called("configure", "", TokensRegistered(registry, config),
              configure(registry, kernel, proxies, pending, config))
    /\ UNCHANGED env

UpdateAfter(us) ==
    /\ Called("update", "", TRUE, update(registry, kernel, proxies, pending, us))
    /\ UNCHANGED env

SetVibe == \E v \in SetterInputs.vibe : SetVibeTo(v) /\ Counted

SetSurface == \E v \in SetterInputs.surface : SetSurfaceTo(v) /\ Counted

SetReactivity == \E v \in SetterInputs.reactivity : SetReactivityTo(v) /\ Counted

SetPalette == \E v \in SetterInputs.palette : SetPaletteTo(v) /\ Counted

Configure == \E i \in DOMAIN ConfigureInputs : ConfigureWith(ConfigureInputs[i]) /\ Counted

Update == \E us \in KernelFrames : UpdateAfter(us) /\ Counted

Start ==
    \E renderer \in BOOLEAN :
        /\ Called("start", "", TRUE, start(kernel, proxies, pending, renderer))
        /\ Counted
        /\ UNCHANGED env

Stop ==
    /\ Called("stop", "", TRUE, stop(kernel, proxies, pending))
    /\ Counted
    /\ UNCHANGED env

\* the browser runs a pending animation-frame callback
AnimationFrame ==
    \E id \in pending : \E us \in KernelFrames :
        /\ Called("frame", "", TRUE, loop(registry, kernel, proxies, pending, id, us))
        /\ Counted
        /\ UNCHANGED env

\* the tab is hidden or shown
VisibilityChange ==
    /\ env' = [env EXCEPT !.hidden = ~@]
    /\ Counted
    /\ IF kernel.visibilityHandler
       THEN Called("visibilitychange", "", TRUE,
                   Ok(visibilityHandler(kernel, env'.hidden), proxies, pending))
       ELSE Called("visibilitychange", "", TRUE, Ok(kernel, proxies, pending))

Dispose ==
    /\ Called("dispose", "", TRUE, dispose(kernel, proxies, pending))
    /\ Counted
    /\ UNCHANGED env

KernelNext ==
    \/ Apply
    \/ SetVibe
    \/ SetSurface
    \/ SetReactivity
    \/ SetPalette
    \/ Configure
    \/ Update
    \/ Start
    \/ Stop
    \/ AnimationFrame
    \/ VisibilityChange
    \/ Dispose

SpecKernel == KernelInit /\ [][KernelNext]_vars

----------------------------------------------------------------------------
(* The documented manual loop: the caller constructs a kernel, calls setters *)
(* and calls update() once per frame for ever; start() is never called.      *)

\* new SMNTCKernel({ disableAutoScale: true })
ManualOptions ==
    { [config |-> EmptyConfig, camera |-> FALSE, domElement |-> FALSE,
       disableAutoScale |-> TRUE] }

ManualInit == \E options \in ManualOptions : KernelInitWith(options)

ManualSetVibe == SetVibeTo("chaotic") /\ Counted

ManualSetSurface == SetSurfaceTo("fluid") /\ Counted

ManualSetPalette == SetPaletteTo("neon") /\ Counted

ManualConfigure == ConfigureWith([vibe |-> "agitated", wireframe |-> FALSE]) /\ Counted

\* the caller's frame loop: update(), one frame after the last
ManualUpdate == \E us \in KernelFrames : UpdateAfter(us) /\ UNCHANGED ncalls

ManualNext ==
    \/ ManualSetVibe
    \/ ManualSetSurface
    \/ ManualSetPalette
    \/ ManualConfigure
    \/ ManualUpdate

\* the frame loop never stops calling update()
SpecManualLoop == ManualInit /\ [][ManualNext]_vars /\ WF_vars(ManualUpdate)

----------------------------------------------------------------------------
(* Claims about SMNTCKernel *)

SpringTargetsOf(kn) == [key \in SpringKeys |-> kn.springs[key].target]

TokenCalls == {"setVibe", "setSurface", "setReactivity", "setPalette", "configure"}

\* C1: a setter or configure call handed an unregistered token throws and leaves
\* getConfig(), every uniform and every spring target as they were, and a setter
\* call handed a registered token does not throw.
BadTokenLeavesKernelUntouched ==
    [][ (ncalls' = ncalls + 1 /\ ~kernel.disposed /\ call'.op \in TokenCalls) =>
            /\ ~call'.valid =>
                  /\ call'.threw
                  /\ getConfig(kernel') = getConfig(kernel)
                  /\ kernel'.uniforms = kernel.uniforms
                  /\ SpringTargetsOf(kernel') = SpringTargetsOf(kernel)
            /\ call'.valid => ~call'.threw ]_vars

\* every spring is settled and every uniform a spring drives holds the value
\* resolved from the current configuration
SettledAtConfig ==
    LET r == resolveConstants(registry, kernel.config)
    IN  /\ ~r.threw
        /\ \A key \in SpringKeys :
              /\ kernel.springs[key].settled
              /\ kernel.uniforms.driven[key] = SpringTargets(r.constants[1])[key]

\* C7: in the manual loop, whenever a spring is not settled, repeated update()
\* calls eventually leave every spring settled and every spring-driven uniform at
\* the value resolved from the current configuration.
ManualLoopSettles ==
    (\E key \in SpringKeys : ~kernel.springs[key].settled) ~> SettledAtConfig

PublicCalls ==
    {"update", "start", "apply", "configure",
     "setVibe", "setSurface", "setReactivity", "setPalette"}

\* the listeners an InputProxy holds
Subscriptions(px) == [i \in DOMAIN px |-> <<px[i].pointermove, px[i].pointerdown, px[i].resize>>]

\* C8: on a disposed kernel a public call throws or leaves the configuration, the
\* uniforms, the springs, the pointer subscriptions and the scheduled animation
\* frames as they were.
DisposedKernelIsInert ==
    [][ (ncalls' = ncalls + 1 /\ kernel.disposed /\ call'.op \in PublicCalls) =>
            \/ call'.threw
            \/ /\ kernel'.config = kernel.config
               /\ kernel'.uniforms = kernel.uniforms
               /\ kernel'.springs = kernel.springs
               /\ Subscriptions(proxies') = Subscriptions(proxies)
               /\ pending' = pending ]_vars

\* the proxies that still listen on the DOM element
LiveProxies(px) == {i \in DOMAIN px : px[i].pointermove}

\* C9: on a kernel handed a mesh, a camera and a DOM element, when setReactivity(r)
\* returns the only live InputProxy is the kernel's current one and it exists iff
\* r is not 'static'; it listens for pointerdown iff r is 'shockwave'.
ReactivitySubscriptionRebuilt ==
    [][ (/\ ncalls' = ncalls + 1
         /\ ~kernel.disposed
         /\ env.mesh /\ env.view
         /\ call'.op = "setReactivity"
         /\ ~call'.threw) =>
            /\ call'.arg # "static" => LiveProxies(proxies') = {kernel'.inputProxy}
            /\ call'.arg = "static" => LiveProxies(proxies') = {}
            /\ \A i \in LiveProxies(proxies') :
                  proxies'[i].pointerdown <=> call'.arg = "shockwave" ]_vars

----------------------------------------------------------------------------
(* An AutoScaler with the default options fed frames of one duration *)

ResolverIdle == registry = BaseRegistry /\ cfgIn = EmptyConfig /\ res = <<>> /\ reps = 0

SpringIdle == spring = <<>> /\ springOp = "none" /\ nsteps = 0

ScalerIdle == scaler = <<>> /\ note = <<>>

\* the slow bound: 15% above the target frame time
FifteenOver == (DefaultTargetFrameTime * 115) \div 100

\* frame durations: 8 ms, the target, 15% above it, just beyond that, 25 ms
StreamFrames == {8000, DefaultTargetFrameTime, FifteenOver, FifteenOver + 10, 25000}

StreamInit ==
    /\ ResolverIdle /\ SpringIdle /\ KernelIdle /\ BankIdle /\ PresetIdle /\ LogIdle
    /\ \E f \in {"low", "medium", "high", "ultra", CustomName} :
          scaler = [NewAutoScaler(f, DefaultScalerOptions) EXCEPT !.hasCallback = TRUE]
    /\ note = <<>>
    /\ \E d \in StreamFrames :
          stream = [frame |-> d, reported |-> 0, notified |-> 0,
                    start |-> scaler.currentIndex]

\* reportFrame(stream.frame)
ReportStreamFrame ==
    LET out == reportFrame(scaler, stream.frame)
    IN  /\ stream.reported < MaxReports
        /\ scaler' = out.scaler
        /\ note' = out.notify
        /\ stream' = [stream EXCEPT !.reported = @ + 1,
                                    !.notified = IF out.notify = <<>> THEN @ ELSE @ + 1]
        /\ UNCHANGED <<resolverVars, springVars, kernelVars>>
        /\ UNCHANGED <<springBank, bankOp, presets, applied, log>>

SpecStream == StreamInit /\ [][ReportStreamFrame]_vars

\* C11: with the default options, frames of exactly the target duration never
\* invoke onFidelityChange and never change the current tier, from any tier.
EvenStreamNeverNotifies ==
    stream.frame = DefaultTargetFrameTime =>
        /\ stream.notified = 0
        /\ note = <<>>
        /\ scaler.currentIndex = stream.start

EvenStreamNeverNotifiesWitness ==
    /\ stream.frame = DefaultTargetFrameTime
    /\ stream.reported = MaxReports
    /\ scaler.frameCount = DefaultSampleWindow
    /\ scaler.currentIndex = 3

\* the report that completes the first run of downgradeThreshold slow evaluations
FirstDowngrade == DefaultSampleWindow + DefaultDowngradeThreshold - 1

\* from a tier above low: no downgrade while the slow streak is below
\* downgradeThreshold; when it gets there the tier is one step down, one
\* notification has been made and the streak is 0
DowngradesAtThreshold ==
    stream.start > 0 =>
        /\ stream.reported < FirstDowngrade =>
              /\ scaler.currentIndex = stream.start
              /\ stream.notified = 0
              /\ scaler.consecutiveBad = Max(0, stream.reported - DefaultSampleWindow + 1)
        /\ stream.reported = FirstDowngrade =>
              /\ scaler.currentIndex = stream.start - 1
              /\ stream.notified = 1
              /\ note = <<FIDELITY_LADDER[stream.start]>>
              /\ scaler.consecutiveBad = 0

\* C12 as stated: frames that last 15% longer than the target frame time.
FifteenOverDowngrades == stream.frame = FifteenOver => DowngradesAtThreshold

\* C12 as amended: frames that last more than 15% longer than the target.
BeyondFifteenOverDowngrades == stream.frame > FifteenOver => DowngradesAtThreshold

BeyondFifteenOverDowngradesWitness ==
    /\ stream.frame = FifteenOver + 10
    /\ stream.start = 3
    /\ stream.reported = FirstDowngrade
    /\ stream.notified = 1
    /\ scaler.currentIndex = 2

----------------------------------------------------------------------------
(* The background colour a kernel reports *)

\* the background of the palette the configuration selects
PaletteBackground(reg, config) == MapGet(reg.palettes, config.palette)[1].background

\* C13: getBackgroundColor() returns the background colour of the palette
\* currently selected in the kernel's configuration, also after setPalette(p) or
\* configure({palette: p}) changed the palette.
BackgroundFollowsPalette ==
    MapHas(registry.palettes, kernel.config.palette) =>
        getBackgroundColor(kernel) = PaletteBackground(registry, kernel.config)

----------------------------------------------------------------------------
(* One kernel with its AutoScaler on: fidelity registrations, configure calls
   and slow frames *)

FidelityOptions ==
    { [config |-> c, camera |-> FALSE, domElement |-> FALSE, disableAutoScale |-> FALSE] :
        c \in {[fidelity |-> "ultra"], [fidelity |-> "medium"]} }

\* fidelity arguments of configure: a ladder tier, a registrable name, an unknown name
FidelityInputs == {"high", CustomName, "extreme"}

\* a frame duration beyond the slow bound
SlowFrame == 2 * DefaultTargetFrameTime

FidelityInit == \E options \in FidelityOptions : KernelInitWith(options)

\* registerFidelity('custom', def)
RegisterFidelity ==
    /\ ~MapHas(registry.fidelities, CustomName)
    /\ registry' = registerToken(registry, "fidelities", CustomName, CustomDef("fidelities"))
    /\ UNCHANGED <<cfgIn, res, reps>>
    /\ UNCHANGED <<springVars, scalerVars, kernelVars, extraVars>>

ConfigureFidelity ==
    \E f \in FidelityInputs : ConfigureWith([fidelity |-> f]) /\ UNCHANGED ncalls

\* update() one slow frame after the last; at the floor the slow streak is cut off
SlowUpdate ==
    /\ kernel.autoScaler.consecutiveBad < DefaultDowngradeThreshold + MaxStreak
    /\ UpdateAfter(SlowFrame)
    /\ UNCHANGED ncalls

FidelityNext ==
    \/ RegisterFidelity
    \/ ConfigureFidelity
    \/ SlowUpdate

SpecFidelity == FidelityInit /\ [][FidelityNext]_vars

\* C14: the configured fidelity token is one of the ladder tiers low, medium,
\* high, ultra, and the AutoScaler's current index is a position of that ladder.
FidelityOnLadder ==
    /\ kernel.config.fidelity \in SeqRange(FIDELITY_LADDER)
    /\ kernel.autoScaler.currentIndex \in 0..(Len(FIDELITY_LADDER) - 1)

----------------------------------------------------------------------------
(* spring.ts: SpringBank, with the Spring objects it creates kept apart from
   the map that refers to them *)

\* new SpringBank(): objects[i] is the i-th Spring created, springs maps a key
\* to the position of its Spring object
NewSpringBank == [objects |-> <<>>, springs |-> <<>>]

\* the Spring objects the map refers to
BankMembers(b) == {b.springs[i].def : i \in DOMAIN b.springs}

\* SpringBank.ensure(key, initial): the bank it leaves and the object it returns
ensureMutFresh(b, key, initial) ==
    [ bank |-> [objects |-> Append(b.objects, NewSpring(initial, DEFAULT_SPRING)),
                springs |-> MapSet(b.springs, key, Len(b.objects) + 1)],
      ret  |-> Len(b.objects) + 1 ]
ensure(b, key, initial) ==
    IF MapHas(b.springs, key)
    THEN [bank |-> b, ret |-> MapGet(b.springs, key)[1]]
    ELSE [ bank |-> [objects |-> Append(b.objects, NewSpring(initial, DEFAULT_SPRING)),
                     springs |-> MapSet(b.springs, key, Len(b.objects) + 1)],
           ret  |-> Len(b.objects) + 1 ]

\* SpringBank.setTarget(key, target, initial?); initial is <<>> when not passed
setTargetOf(b, key, target, initial) ==
    LET e == ensure(b, key, IF initial = <<>> THEN target ELSE initial[1])
    IN  [ bank |-> [e.bank EXCEPT !.objects[e.ret] = SpringSetTarget(@, target)],
          ret  |-> e.ret ]

\* SpringBank.step(dt)
stepAll(b, dt) ==
    [b EXCEPT !.objects = [i \in DOMAIN b.objects |->
                              IF i \in BankMembers(b) THEN SpringStep(b.objects[i], dt)
                              ELSE b.objects[i]]]

\* SpringBank.snapAll()
snapAll(b) ==
    [b EXCEPT !.objects = [i \in DOMAIN b.objects |->
                              IF i \in BankMembers(b)
                              THEN SpringSnap(b.objects[i], b.objects[i].target)
                              ELSE b.objects[i]]]

----------------------------------------------------------------------------
(* Callers of one SpringBank *)

BankKeys == {"a", "b"}

BankValues == {0, Fx(1, 1)}

BankDts == {<<1, 60>>}

NoObject == 0

BankInit ==
    /\ ResolverIdle /\ SpringIdle /\ ScalerIdle /\ KernelIdle
    /\ StreamIdle /\ PresetIdle /\ LogIdle
    /\ springBank = NewSpringBank
    /\ bankOp = [op |-> "new", key |-> "", arg |-> 0, ret |-> NoObject, n |-> 0,
                 first |-> [k \in BankKeys |-> NoObject]]

\* the record of one operation; first keeps the object first created for a key
BankCalled(op, key, arg, b, ret) ==
    /\ bankOp.n < MaxBankOps
    /\ springBank' = b
    /\ bankOp' = [op |-> op, key |-> key, arg |-> arg, ret |-> ret, n |-> bankOp.n + 1,
                  first |-> [k \in BankKeys |->
                                IF bankOp.first[k] = NoObject /\ MapHas(b.springs, k)
                                THEN MapGet(b.springs, k)[1]
                                ELSE bankOp.first[k]]]
    /\ UNCHANGED <<resolverVars, springVars, scalerVars, kernelVars>>
    /\ UNCHANGED <<stream, presets, applied, log>>

BankEnsure ==
    \E key \in BankKeys, x \in BankValues :
        LET e == ensure(springBank, key, x)
        IN  BankCalled("ensure", key, x, e.bank, e.ret)

BankSetTarget ==
    \E key \in BankKeys, t \in BankValues, initial \in {<<>>} \cup {<<v>> : v \in BankValues} :
        LET e == setTargetOf(springBank, key, t, initial)
        IN  BankCalled("setTarget", key, t, e.bank, e.ret)

BankStep ==
    \E dt \in BankDts : BankCalled("step", "", 0, stepAll(springBank, dt), NoObject)

BankSnapAll == BankCalled("snapAll", "", 0, snapAll(springBank), NoObject)

BankNext ==
    \/ BankEnsure
    \/ BankSetTarget
    \/ BankStep
    \/ BankSnapAll

SpecBank == BankInit /\ [][BankNext]_vars

\* C15: ensure(key, x) for a key that already exists returns the very Spring
\* object first created for that key and leaves its value, target and settled
\* flag as they were, whatever x is.
EnsureReturnsExisting ==
    [][ (/\ bankOp'.n = bankOp.n + 1
         /\ bankOp'.op = "ensure"
         /\ MapHas(springBank.springs, bankOp'.key)) =>
            LET o == bankOp.first[bankOp'.key]
            IN  /\ bankOp'.ret = o
                /\ springBank'.objects[o].value = springBank.objects[o].value
                /\ springBank'.objects[o].target = springBank.objects[o].target
                /\ springBank'.objects[o].settled = springBank.objects[o].settled ]_vars

\* ensure was called with another value for a key whose spring is on its way
EnsureReturnsExistingWitness ==
    /\ bankOp.op = "ensure"
    /\ bankOp.ret = bankOp.first[bankOp.key]
    /\ ~springBank.objects[bankOp.ret].settled
    /\ springBank.objects[bankOp.ret].velocity # 0
    /\ bankOp.arg # springBank.objects[bankOp.ret].value
    /\ bankOp.arg # springBank.objects[bankOp.ret].target

----------------------------------------------------------------------------
(* Spring.setTarget with the target the spring already has *)

\* C16: setTarget(t) on a Spring whose target already is t changes nothing
\* (settled, value, velocity and target stay), so a settled spring stays settled,
\* and setTarget(t) once more after setTarget(t) changes nothing either.
SetTargetSameIsNoop ==
    [][ springOp' = "setTarget" =>
            /\ spring'.target = spring.target => spring' = spring
            /\ SpringSetTarget(spring', spring'.target) = spring' ]_vars

\* a spring that moved and settled was handed its own target and is still settled
SetTargetSameIsNoopWitness ==
    /\ springOp = "setTarget"
    /\ spring.settled
    /\ nsteps > 0
    /\ spring.target # 0

----------------------------------------------------------------------------
(* registry.ts: presets *)

\* a PresetDefinition: defaults is a partial configuration, tables maps a
\* category to the custom tokens the preset carries (in Object.entries order),
\* allowed maps a token field to its allow-list; a key left out is undefined
Preset(name, defaults, tables, allowed) ==
    [name |-> name, defaults |-> defaults, tables |-> tables, allowed |-> allowed]

\* registerPreset(preset): presetRegistry.set(preset.name, preset)
registerPreset(ps, preset) == MapSet(ps, preset.name, preset)

TableOf(preset, cat) == IF cat \in DOMAIN preset.tables THEN preset.tables[cat] ELSE <<>>

\* for (const [name, def] of Object.entries(table)) registerX(name, def)
RECURSIVE registerEntries(_, _, _)
registerEntries(reg, cat, table) ==
    IF table = <<>> THEN reg
    ELSE registerEntries(registerToken(reg, cat, Head(table).name, Head(table).def),
                         cat, Tail(table))

\* definePreset(preset): the token registry and the preset registry it leaves
definePreset(reg, ps, preset) ==
    LET r1 == registerEntries(reg, "surfaces", TableOf(preset, "surfaces"))
        r2 == registerEntries(r1, "vibes", TableOf(preset, "vibes"))
        r3 == registerEntries(r2, "reactivities", TableOf(preset, "reactivities"))
        r4 == registerEntries(r3, "fidelities", TableOf(preset, "fidelities"))
        r5 == registerEntries(r4, "palettes", TableOf(preset, "palettes"))
    IN  [registry |-> r5, presets |-> registerPreset(ps, preset)]

\* { ...preset.defaults, ...config }
mergeMutDefaultsWin(defaults, config) ==
    [f \in DOMAIN defaults \cup DOMAIN config |->
        IF f \in DOMAIN defaults THEN defaults[f] ELSE config[f]]
merge(defaults, config) ==
    [f \in DOMAIN defaults \cup DOMAIN config |->
        IF f \in DOMAIN config THEN config[f] ELSE defaults[f]]

\* a string in a condition: only the empty string is falsy
Truthy(v) == v # ""

\* the order applyPreset checks the allow-lists in
AllowListOrder == <<"surface", "vibe", "reactivity", "fidelity", "palette">>

\* preset.allowedX && merged.x && !preset.allowedX.includes(merged.x)
Disallowed(preset, merged, f) ==
    /\ f \in DOMAIN preset.allowed
    /\ f \in DOMAIN merged
    /\ Truthy(merged[f])
    /\ merged[f] \notin SeqRange(preset.allowed[f])

\* applyPreset(preset, config): the TypeError it throws, by the parts of its
\* message, or the merged configuration it returns
applyPreset(preset, config) ==
    LET merged == merge(preset.defaults, config)
        bad    == {i \in DOMAIN AllowListOrder : Disallowed(preset, merged, AllowListOrder[i])}
        first  == AllowListOrder[CHOOSE i \in bad : \A j \in bad : i <= j]
    IN  IF bad # {}
        THEN [threw |-> TRUE, preset |-> preset.name, field |-> first,
              value |-> merged[first], merged |-> <<>>]
        ELSE [threw |-> FALSE, preset |-> "", field |-> "", value |-> "",
              merged |-> <<merged>>]

----------------------------------------------------------------------------
(* Callers of the preset functions *)

\* another definition to register under a name
OtherDef(cat) ==
    CASE cat = "surfaces"     -> SurfaceDef(9, Fx(5, 10))
      [] cat = "vibes"        -> VibeDef(Fx(9, 10), Fx(1, 10), Fx(4, 10), Fx(6, 10))
      [] cat = "reactivities" -> ReactivityDef(2, Fx(2, 10), Fx(15, 10))
      [] cat = "fidelities"   -> FidelityDef(48, Fx(3, 1))
      [] cat = "palettes"     -> PaletteDef(hexToRGB(200, 100, 50), hexToRGB(20, 40, 60),
                                            hexToRGB(7, 8, 9))

PresetInputs ==
    << Preset("brand",
              [palette |-> "arctic", vibe |-> "calm", intensity |-> Fx(3, 2)],
              EmptyConfig,
              [palette |-> <<"arctic">>]),
       Preset("brand",
              [palette |-> "neon", surface |-> "fluid"],
              [palettes |-> <<Entry(CustomName, CustomDef("palettes"))>>],
              [palette |-> <<"arctic", CustomName>>, fidelity |-> <<>>]),
       Preset("lab",
              EmptyConfig,
              [vibes      |-> <<Entry(CustomName, CustomDef("vibes")),
                                Entry("calm", OtherDef("vibes"))>>,
               fidelities |-> <<Entry(CustomName, CustomDef("fidelities"))>>],
              EmptyConfig),
       Preset("strict",
              [wireframe |-> TRUE],
              EmptyConfig,
              [vibe |-> <<"calm">>, palette |-> <<"arctic">>]) >>

PresetConfigs ==
    << EmptyConfig,
       [palette |-> "neon"],
       [palette |-> "arctic"],
       [palette |-> ""],
       [vibe |-> "agitated", palette |-> CustomName, intensity |-> Fx(1, 2)],
       [surface |-> "fluid", wireframe |-> FALSE] >>

PresetInit ==
    /\ ResolverIdle /\ SpringIdle /\ ScalerIdle /\ KernelIdle
    /\ StreamIdle /\ BankIdle /\ LogIdle
    /\ presets = <<>>
    /\ applied = <<>>

PresetFrame ==
    /\ UNCHANGED <<cfgIn, res, reps>>
    /\ UNCHANGED <<springVars, scalerVars, kernelVars>>
    /\ UNCHANGED <<stream, springBank, bankOp, log>>

DefinePreset ==
    \E i \in DOMAIN PresetInputs :
        LET out == definePreset(registry, presets, PresetInputs[i])
        IN  /\ registry' = out.registry
            /\ presets' = out.presets
            /\ UNCHANGED applied
            /\ PresetFrame

RegisterPreset ==
    \E i \in DOMAIN PresetInputs :
        /\ presets' = registerPreset(presets, PresetInputs[i])
        /\ UNCHANGED <<registry, applied>>
        /\ PresetFrame

ApplyPreset ==
    \E i \in DOMAIN PresetInputs, j \in DOMAIN PresetConfigs :
        /\ applied' = [preset |-> PresetInputs[i], config |-> PresetConfigs[j],
                       out |-> applyPreset(PresetInputs[i], PresetConfigs[j])]
        /\ UNCHANGED <<registry, presets>>
        /\ PresetFrame

PresetNext ==
    \/ DefinePreset
    \/ RegisterPreset
    \/ ApplyPreset

SpecPreset == PresetInit /\ [][PresetNext]_vars

\* the merged selection has a value for f that the given allow-list lacks
OutsideAllowList(preset, merged, f) ==
    /\ f \in DOMAIN preset.allowed
    /\ f \in DOMAIN merged
    /\ merged[f] \notin SeqRange(preset.allowed[f])

\* C17: applyPreset(preset, config) fails, with an error naming the preset, the
\* field and the offending value, exactly when for some category whose allow-list
\* is given the merged selection has a value that is not in the allow-list;
\* otherwise it returns the merged configuration.
AllowListEnforced ==
    applied # <<>> =>
        LET merged == merge(applied.preset.defaults, applied.config)
            out    == applied.out
        IN  /\ out.threw <=> \E f \in TokenFields : OutsideAllowList(applied.preset, merged, f)
            /\ out.threw =>
                  /\ out.preset = applied.preset.name
                  /\ OutsideAllowList(applied.preset, merged, out.field)
                  /\ out.value = merged[out.field]
            /\ ~out.threw => out.merged = <<merged>>

\* the token field a category validates
FieldOf(cat) == CHOOSE f \in TokenFields : FieldCat[f] = cat

\* C18: after a preset that carries custom token tables has been registered,
\* every token of those tables is in the registry under its category, is listed
\* by listTokens, and resolves in a configuration that names it directly.
PresetTablesRegistered ==
    \A i \in DOMAIN presets :
        LET preset == presets[i].def
        IN  \A cat \in DOMAIN preset.tables :
                \A j \in DOMAIN preset.tables[cat] :
                    LET n == preset.tables[cat][j].name
                    IN  /\ MapHas(registry[cat], n)
                        /\ n \in SeqRange(listTokens(registry)[cat])
                        /\ ~resolveConstants(registry,
                                             WithField(EmptyConfig, FieldOf(cat), n)).threw

\* all the configuration fields
ConfigFields == DOMAIN DEFAULTS

\* C20: when applyPreset succeeds, each field of the returned configuration is
\* the partial configuration's value when that sets the field, otherwise the
\* value from preset.defaults, and absent when neither sets it.
ExplicitValuesWin ==
    (applied # <<>> /\ ~applied.out.threw) =>
        LET c == applied.config
            d == applied.preset.defaults
            m == applied.out.merged[1]
        IN  \A f \in ConfigFields :
                /\ f \in DOMAIN c => f \in DOMAIN m /\ m[f] = c[f]
                /\ (f \notin DOMAIN c /\ f \in DOMAIN d) => f \in DOMAIN m /\ m[f] = d[f]
                /\ (f \notin DOMAIN c /\ f \notin DOMAIN d) => f \notin DOMAIN m

\* applyPreset returned where the configuration and the defaults set one field
\* differently and the defaults alone set another
ExplicitValuesWinWitness ==
    /\ applied # <<>>
    /\ ~applied.out.threw
    /\ \E f \in DOMAIN applied.config \cap DOMAIN applied.preset.defaults :
          applied.config[f] # applied.preset.defaults[f]
    /\ DOMAIN applied.preset.defaults \ DOMAIN applied.config # {}

----------------------------------------------------------------------------
(* Callers of the register and define functions *)

\* defineSurface, defineVibe, defineReactivity, defineFidelity, definePalette:
\* the registry it leaves and the frozen object it returns
defineToken(reg, cat, n, d) ==
    [registry |-> registerToken(reg, cat, n, d), ret |-> Entry(n, d)]

\* what a caller registers: a new name with either definition, or the built-in
\* default token of the category with another definition
RegistrationInputs(cat) ==
    { Entry(CustomName, CustomDef(cat)),
      Entry(CustomName, OtherDef(cat)),
      Entry(DEFAULTS[FieldOf(cat)], OtherDef(cat)) }

RegistryInit ==
    /\ ResolverIdle /\ SpringIdle /\ ScalerIdle /\ KernelIdle
    /\ StreamIdle /\ BankIdle /\ PresetIdle
    /\ log = <<>>

Logged(cat, e, reg) ==
    /\ Len(log) < MaxLogLen
    /\ registry' = reg
    /\ log' = Append(log, [cat |-> cat, name |-> e.name, def |-> e.def])
    /\ UNCHANGED <<cfgIn, res, reps>>
    /\ UNCHANGED <<springVars, scalerVars, kernelVars>>
    /\ UNCHANGED <<stream, springBank, bankOp, presets, applied>>

RegisterToken ==
    \E cat \in Categories : \E e \in RegistrationInputs(cat) :
        Logged(cat, e, registerToken(registry, cat, e.name, e.def))

DefineToken ==
    \E cat \in Categories : \E e \in RegistrationInputs(cat) :
        Logged(cat, e, defineToken(registry, cat, e.name, e.def).registry)

RegistryNext ==
    \/ RegisterToken
    \/ DefineToken

SpecRegistry == RegistryInit /\ [][RegistryNext]_vars

\* the calls on record that registered n in cat
CallsFor(cat, n) == {k \in DOMAIN log : log[k].cat = cat /\ log[k].name = n}

\* n is listed in cat and a configuration that names it resolves
ListedAndResolves(cat, n) ==
    /\ n \in SeqRange(listTokens(registry)[cat])
    /\ ~resolveConstants(registry, WithField(EmptyConfig, FieldOf(cat), n)).threw

\* C19: after any sequence of register/define calls each (category, name) pair
\* maps to exactly one definition, the one most recently registered under that
\* name, and no name disappears: every built-in token and every token registered
\* earlier is still listed and still resolves.
LastWriteWins ==
    \A cat \in Categories :
        /\ \A i, j \in DOMAIN registry[cat] :
              registry[cat][i].name = registry[cat][j].name => i = j
        /\ \A k \in DOMAIN log :
              log[k].cat = cat =>
                  LET last == CHOOSE x \in CallsFor(cat, log[k].name) :
                                  \A y \in CallsFor(cat, log[k].name) : y <= x
                  IN  /\ MapGet(registry[cat], log[k].name) = <<log[last].def>>
                      /\ ListedAndResolves(cat, log[k].name)
        /\ \A i \in DOMAIN BaseRegistry[cat] :
              LET n == BaseRegistry[cat][i].name
              IN  /\ ListedAndResolves(cat, n)
                  /\ CallsFor(cat, n) = {} =>
                        MapGet(registry[cat], n) = <<BaseRegistry[cat][i].def>>

\* a new name was registered twice with different definitions and then a
\* built-in token was overwritten
LastWriteWinsWitness ==
    /\ Len(log) >= 3
    /\ log[1].name = CustomName
    /\ log[2].name = CustomName
    /\ log[1].cat = log[2].cat
    /\ log[1].def # log[2].def
    /\ log[3].cat = log[1].cat
    /\ log[3].name # CustomName

----------------------------------------------------------------------------
(* One kernel whose reactivity is changed by setReactivity and by configure *)

ReactivityOptions ==
    { [config |-> [reactivity |-> r], camera |-> TRUE, domElement |-> TRUE,
       disableAutoScale |-> TRUE] : r \in {"static", "shockwave"} }

ReactivityInputs == {"static", "magnetic", "shockwave"}

ReactivityInit == \E options \in ReactivityOptions : KernelInitWith(options)

\* apply(mesh, camera, domElement)
ReactivityApply ==
    /\ Called("apply", "", TRUE, apply(kernel, proxies, pending, TRUE, TRUE))
    /\ Counted
    /\ env' = [env EXCEPT !.mesh = TRUE, !.view = TRUE]

ReactivitySet == \E r \in ReactivityInputs : SetReactivityTo(r) /\ Counted

\* configure({reactivity}), as the component's prop-change effect calls it
ReactivityConfigure ==
    \E r \in ReactivityInputs : ConfigureWith([reactivity |-> r]) /\ Counted

ReactivityNext ==
    \/ ReactivityApply
    \/ ReactivitySet
    \/ ReactivityConfigure

SpecReactivity == ReactivityInit /\ [][ReactivityNext]_vars

\* C21: on a kernel applied to a mesh with a camera and a DOM element, whatever
\* setReactivity and configure({reactivity}) calls were made, a live InputProxy
\* exists iff the configured reactivity is not 'static', and it listens for
\* pointerdown iff the configured reactivity is 'shockwave'.
ProxyMatchesReactivity ==
    (env.mesh /\ env.view) =>
        /\ LiveProxies(proxies) # {} <=> kernel.config.reactivity # "static"
        /\ \A i \in LiveProxies(proxies) :
              proxies[i].pointerdown <=> kernel.config.reactivity = "shockwave"

\* C22: the AutoScaler's current tier equals the kernel's configured fidelity in
\* every state, so a fidelity change the AutoScaler applies during update() moves
\* the configured fidelity by exactly one ladder step, whatever configure calls
\* and frame reports are interleaved.
ScalerTierIsConfigured ==
    /\ [](currentFidelity(kernel.autoScaler) = kernel.config.fidelity)
    /\ [][ (call'.op = "update" /\ kernel'.config.fidelity # kernel.config.fidelity) =>
              Abs(LadderIndexOf(kernel'.config.fidelity)
                  - LadderIndexOf(kernel.config.fidelity)) = 1 ]_vars

----------------------------------------------------------------------------
(* The evaluation one reportFrame call makes *)

\* the step is a reportFrame(d) call on an enabled AutoScaler
ReportedAs(d) ==
    /\ scaler.enabled
    /\ scaler' = reportFrame(scaler, d).scaler
    /\ note' = reportFrame(scaler, d).notify
    /\ scaler' # scaler

RECURSIVE SumSeq(_)
SumSeq(q) == IF q = <<>> THEN 0 ELSE Head(q) + SumSeq(Tail(q))

\* the samples the window holds once d is recorded, and how many they are
WindowAfter(s, d) == [s.frameTimes EXCEPT ![s.frameIndex + 1] = d]

CountAfter(s) == Min(s.frameCount + 1, s.sampleWindow)

\* the class of the evaluation made once d is recorded
EvaluatesAfter(s, d) == CountAfter(s) = s.sampleWindow

SlowAfter(s, d) ==
    EvaluatesAfter(s, d) /\ SumSeq(WindowAfter(s, d)) * 100 > 115 * s.targetFrameTime * s.sampleWindow

FastAfter(s, d) ==
    EvaluatesAfter(s, d) /\ SumSeq(WindowAfter(s, d)) * 100 < 75 * s.targetFrameTime * s.sampleWindow

\* the buffer and the running sum are empty
BufferEmpty(s) ==
    /\ s.frameCount = 0
    /\ s.frameIndex = 0
    /\ s.runningSum = 0
    /\ \A i \in DOMAIN s.frameTimes : s.frameTimes[i] = 0

\* C23: a reportFrame call on an enabled AutoScaler lowers the tier by one step
\* iff, with the sample recorded, the window is full, its average is above
\* 1.15 x targetFrameTime, the slow streak reaches downgradeThreshold and the tier
\* is above low; that call then leaves the slow streak at 0 and the buffer and
\* running sum empty, and calls onFidelityChange once with the new tier.
DowngradeExactlyWhenDue ==
    [][ \A d \in FrameInputs :
            ReportedAs(d) =>
                LET due == /\ SlowAfter(scaler, d)
                           /\ scaler.consecutiveBad + 1 >= scaler.downgradeThreshold
                           /\ scaler.currentIndex > 0
                IN  /\ scaler'.currentIndex < scaler.currentIndex <=> due
                    /\ due =>
                          /\ scaler'.currentIndex = scaler.currentIndex - 1
                          /\ scaler'.consecutiveBad = 0
                          /\ BufferEmpty(scaler')
                          /\ note' = <<FIDELITY_LADDER[scaler.currentIndex]>> ]_vars

\* a call has just lowered the tier to the floor
DowngradeExactlyWhenDueWitness ==
    /\ scaler.enabled
    /\ note = <<"low">>
    /\ scaler.currentIndex = 0
    /\ BufferEmpty(scaler)

\* C30: a reportFrame call on an enabled AutoScaler raises the tier by one step
\* iff, with the sample recorded, the window is full, its average is below
\* 0.75 x targetFrameTime, the fast streak reaches upgradeThreshold and the tier
\* is below ultra; that call then leaves the fast streak at 0 and the buffer and
\* running sum empty, and calls onFidelityChange once with the new tier.
UpgradeExactlyWhenDue ==
    [][ \A d \in FrameInputs :
            ReportedAs(d) =>
                LET due == /\ FastAfter(scaler, d)
                           /\ scaler.consecutiveGood + 1 >= scaler.upgradeThreshold
                           /\ scaler.currentIndex < Len(FIDELITY_LADDER) - 1
                IN  /\ scaler'.currentIndex > scaler.currentIndex <=> due
                    /\ due =>
                          /\ scaler'.currentIndex = scaler.currentIndex + 1
                          /\ scaler'.consecutiveGood = 0
                          /\ BufferEmpty(scaler')
                          /\ note' = <<FIDELITY_LADDER[scaler.currentIndex + 2]>> ]_vars

\* a call has just raised the tier to the top
UpgradeExactlyWhenDueWitness ==
    /\ scaler.enabled
    /\ note = <<"ultra">>
    /\ scaler.currentIndex = Len(FIDELITY_LADDER) - 1
    /\ BufferEmpty(scaler)

\* C29: streaks count consecutive evaluations only: an evaluation whose window
\* average lies within [0.75, 1.15] x targetFrameTime sets both streak counters
\* to 0, a slow one sets the fast counter to 0 and adds one to the slow counter
\* (or downgrades), a fast one sets the slow counter to 0 and adds one to the fast
\* counter (or upgrades), and a report that makes no evaluation leaves both.
StreaksAreConsecutive ==
    [][ \A d \in FrameInputs :
            ReportedAs(d) =>
                LET slow == SlowAfter(scaler, d)
                    fast == FastAfter(scaler, d)
                    even == EvaluatesAfter(scaler, d) /\ ~slow /\ ~fast
                    moved == scaler'.currentIndex # scaler.currentIndex
                IN  /\ even => scaler'.consecutiveBad = 0 /\ scaler'.consecutiveGood = 0
                    /\ slow =>
                          /\ scaler'.consecutiveGood = 0
                          /\ scaler'.consecutiveBad = IF moved THEN 0
                                                      ELSE scaler.consecutiveBad + 1
                    /\ fast =>
                          /\ scaler'.consecutiveBad = 0
                          /\ scaler'.consecutiveGood = IF moved THEN 0
                                                       ELSE scaler.consecutiveGood + 1
                    /\ ~EvaluatesAfter(scaler, d) =>
                          /\ scaler'.consecutiveBad = scaler.consecutiveBad
                          /\ scaler'.consecutiveGood = scaler.consecutiveGood
                    /\ moved =>
                          \/ slow /\ scaler.consecutiveBad + 1 >= scaler.downgradeThreshold
                          \/ fast /\ scaler.consecutiveGood + 1 >= scaler.upgradeThreshold ]_vars

\* a full window of a fast, an even and a slow frame was evaluated: no streak
StreaksAreConsecutiveWitness ==
    /\ scaler.enabled
    /\ scaler.frameCount = scaler.sampleWindow
    /\ SeqRange(scaler.frameTimes) = FrameInputs
    /\ scaler.consecutiveBad = 0
    /\ scaler.consecutiveGood = 0

----------------------------------------------------------------------------
(* An AutoScaler with the default options fed target-time frames and one long
   frame *)

\* a long frame, such as the first one after a pause
SpikeFrame == 6 * DefaultTargetFrameTime

\* the frame by itself lasts longer than 1.15 x targetFrameTime
IndividuallySlow(s, d) == d * 100 > 115 * s.targetFrameTime

SpikeInit ==
    /\ ResolverIdle /\ SpringIdle /\ KernelIdle /\ BankIdle /\ PresetIdle /\ LogIdle
    /\ \E f \in {"medium", "ultra"} :
          scaler = [NewAutoScaler(f, DefaultScalerOptions) EXCEPT !.hasCallback = TRUE]
    /\ note = <<>>
    /\ stream = [reported |-> 0, spikes |-> 0, slow |-> 0, slowAtChange |-> <<>>]

\* reportFrame(d); slow counts the individually slow frames since the last
\* buffer reset, slowAtChange keeps that count as it was at the last downgrade
SpikeReported(d) ==
    LET out   == reportFrame(scaler, d)
        slow  == stream.slow + (IF IndividuallySlow(scaler, d) THEN 1 ELSE 0)
        moved == out.scaler.currentIndex # scaler.currentIndex
    IN  /\ stream.reported < MaxReports
        /\ scaler' = out.scaler
        /\ note' = out.notify
        /\ stream' = [reported     |-> stream.reported + 1,
                      spikes       |-> stream.spikes + (IF d = SpikeFrame THEN 1 ELSE 0),
                      slow         |-> IF moved THEN 0 ELSE slow,
                      slowAtChange |-> IF out.scaler.currentIndex < scaler.currentIndex
                                       THEN <<slow>> ELSE stream.slowAtChange]
        /\ UNCHANGED <<resolverVars, springVars, kernelVars>>
        /\ UNCHANGED <<springBank, bankOp, presets, applied, log>>

ReportEven == SpikeReported(DefaultTargetFrameTime)

\* the one long frame
ReportSpike == stream.spikes = 0 /\ SpikeReported(SpikeFrame)

SpikeNext ==
    \/ ReportEven
    \/ ReportSpike

SpecSpike == SpikeInit /\ [][SpikeNext]_vars

\* C24: with default options the AutoScaler downgrades only if at least
\* downgradeThreshold of the frames reported since the last buffer reset each
\* lasted longer than 1.15 x targetFrameTime; a single slow frame among frames of
\* exactly the target time never causes a downgrade.
DowngradeNeedsSlowFrames ==
    stream.slowAtChange # <<>> => stream.slowAtChange[1] >= DefaultDowngradeThreshold

----------------------------------------------------------------------------
(* The InputProxy objects of one kernel *)

\* the proxies that were created and not disposed
UndisposedProxies(px) == {i \in DOMAIN px : ~px[i].disposed}

\* C25: for any sequence of apply, setReactivity and dispose calls, at most one
\* undisposed InputProxy, with its DOM listeners attached, exists for the kernel:
\* every proxy the kernel replaces or drops has been disposed first.
AtMostOneUndisposedProxy ==
    /\ Cardinality(UndisposedProxies(proxies)) <= 1
    /\ UndisposedProxies(proxies) \subseteq {kernel.inputProxy}

----------------------------------------------------------------------------
(* One kernel with its AutoScaler on whose caller changes tokens between slow
   frames; the caller never starts the clock, so update() itself moves no spring *)

NotifySetVibe == SetVibeTo("chaotic") /\ UNCHANGED ncalls

NotifySetPalette == SetPaletteTo("neon") /\ UNCHANGED ncalls

NotifyNext ==
    \/ SlowUpdate
    \/ NotifySetVibe
    \/ NotifySetPalette

SpecNotify == FidelityInit /\ [][NotifyNext]_vars

\* the update() call made the AutoScaler change its tier and notify the kernel
Notified == call'.op = "update" /\ kernel'.autoScaler.currentIndex # kernel.autoScaler.currentIndex

\* C26: when the AutoScaler notifies the kernel of a fidelity change, the kernel
\* sets its configured fidelity to the notified tier and changes only the
\* wireframeWidth spring target and its stored segments and wireframeWidth
\* constants; the target, value and velocity of every other spring and every
\* discrete uniform are as they were.
NotificationTouchesOnlyWireframeWidth ==
    [][ Notified =>
            LET tier == currentFidelity(kernel'.autoScaler)
                def  == MapGet(registry.fidelities, tier)[1]
            IN  /\ kernel'.config = [kernel.config EXCEPT !.fidelity = tier]
                /\ kernel'.constants = [kernel.constants EXCEPT
                                           !.segments = def.segments,
                                           !.wireframeWidth = def.wireframeWidth]
                /\ \A key \in SpringKeys \ {"wireframeWidth"} :
                      kernel'.springs[key] = kernel.springs[key]
                /\ kernel'.springs["wireframeWidth"].target = def.wireframeWidth
                /\ kernel'.springs["wireframeWidth"].value = kernel.springs["wireframeWidth"].value
                /\ kernel'.springs["wireframeWidth"].velocity = kernel.springs["wireframeWidth"].velocity
                /\ kernel'.uniforms = kernel.uniforms ]_vars

\* the tier was lowered to the floor while the vibe and palette springs were on
\* their way
NotificationTouchesOnlyWireframeWidthWitness ==
    /\ call.op = "update"
    /\ kernel.config.fidelity = "low"
    /\ kernel.autoScaler.frameCount = 0
    /\ ~kernel.springs["frequency"].settled
    /\ ~kernel.springs["primaryR"].settled
    /\ ~kernel.springs["wireframeWidth"].settled

\* ---------------------------------------------------------------------------
\* update() on a running clock: a kernel with auto-scaling, started without a
\* renderer and ticked by the caller with slow frames
\* ---------------------------------------------------------------------------

\* start() with no renderer: the clock runs, the caller drives update()
TickStart ==
    /\ ~kernel.clock.running
    /\ Called("start", "", TRUE, start(kernel, proxies, pending, FALSE))
    /\ UNCHANGED <<env, ncalls>>

TickNext ==
    \/ TickStart
    \/ SlowUpdate

SpecTick == FidelityInit /\ [][TickNext]_vars

\* the time step the springs advance by in a tick of SlowFrame microseconds
TickDt == FrameDt(ClockGetDelta(kernel.clock, SlowFrame).diff)

\* C27: a tick advances the springs, then writes the spring values to the
\* uniforms, then updates the input proxy, then reports the frame: the uniforms
\* written in a tick are that tick's spring values, stepped from the targets the
\* tick started with, and a fidelity change triggered in the tick only moves the
\* wireframeWidth target, which the uniforms follow from the next tick on.
TickOrder ==
    [][ (call'.op = "update" /\ ~kernel.disposed) =>
            /\ \A key \in SpringKeys :
                  /\ kernel'.springs[key].value = SpringStep(kernel.springs[key], TickDt).value
                  /\ kernel'.uniforms.driven[key] = kernel'.springs[key].value
            /\ Notified =>
                  /\ kernel'.springs["wireframeWidth"].target
                        = MapGet(registry.fidelities, kernel'.config.fidelity)[1].wireframeWidth
                  /\ kernel'.springs["wireframeWidth"].target # kernel.springs["wireframeWidth"].target
      ]_vars

\* a tick on a running clock has just downgraded ultra to high: the uniform
\* still holds ultra's width while the spring already aims at high's
TickOrderWitness ==
    /\ call.op = "update"
    /\ kernel.clock.running
    /\ kernel.config.fidelity = "high"
    /\ BufferEmpty(kernel.autoScaler)
    /\ kernel.uniforms.driven["wireframeWidth"] = Fx(50, 100)
    /\ kernel.springs["wireframeWidth"].target = Fx(75, 100)

\* C28: setTarget(t) on a spring in mid-transition changes only the target (the
\* spring stays unsettled): value, velocity and configuration are what they were
\* before the call, so the next step (of 1/60 s) is the step from that value
\* and velocity toward t.
SetTargetKeepsMotion ==
    [][ (springOp' = "setTarget" /\ ~spring.settled) =>
            LET t == spring'.target
            IN  /\ t \in SpringValues
                /\ spring' = [spring EXCEPT !.target = t]
                /\ ~spring'.settled
                /\ SpringStep(spring', <<1, 60>>)
                      = SpringStep([value |-> spring.value, velocity |-> spring.velocity,
                                    target |-> t, settled |-> FALSE,
                                    config |-> spring.config], <<1, 60>>)
      ]_vars

\* a spring rising toward an earlier target has just been aimed below its
\* current value
SetTargetKeepsMotionWitness ==
    /\ springOp = "setTarget"
    /\ nsteps > 0
    /\ ~spring.settled
    /\ spring.velocity > 0
    /\ spring.target < spring.value

----------------------------------------------------------------------------
(* The AutoScaler's ring buffer *)

\* the samples recorded since the last reset that the buffer still holds
HeldSamples(s) ==
    IF s.frameCount < s.sampleWindow THEN SubSeq(s.frameTimes, 1, s.frameCount)
    ELSE s.frameTimes

----------------------------------------------------------------------------
(* The array-based AutoScaler, run side by side with the ring-buffer one *)

\* new AutoScaler(initialFidelity, options) of the array-based class
NewArrayScaler(initialFidelity, options) ==
    [ targetFrameTime    |-> options.targetFrameTime,
      sampleWindow       |-> options.sampleWindow,
      downgradeThreshold |-> options.downgradeThreshold,
      upgradeThreshold   |-> options.upgradeThreshold,
      enabled            |-> options.enabled,
      frameTimes         |-> <<>>,
      consecutiveBad     |-> 0,
      consecutiveGood    |-> 0,
      currentIndex       |-> IF LadderIndexOf(initialFidelity) = -1
                             THEN 1 ELSE LadderIndexOf(initialFidelity),
      hasCallback        |-> FALSE ]

\* this.frameTimes.length = 0
clearArray(s) == [s EXCEPT !.frameTimes = <<>>]

\* avg > targetFrameTime * 1.15 and avg < targetFrameTime * 0.75, the average
\* being the re-summed window over its length
ArraySlow(s) == SumSeq(s.frameTimes) * 100 > s.targetFrameTime * 115 * Len(s.frameTimes)
ArrayFast(s) == SumSeq(s.frameTimes) * 100 < s.targetFrameTime * 75 * Len(s.frameTimes)

\* reportFrame(deltaMs) of the array-based class
reportFrameArrayMutNoShift(s, deltaMs) ==
    IF ~s.enabled THEN ScalerResult(s, <<>>)
    ELSE
        LET s1 == [s EXCEPT !.frameTimes = Append(s.frameTimes, deltaMs)]
        IN  IF Len(s1.frameTimes) < s1.sampleWindow THEN ScalerResult(s1, <<>>)
            ELSE IF ArraySlow(s1) THEN
                LET s2 == [s1 EXCEPT !.consecutiveBad = @ + 1, !.consecutiveGood = 0]
                IN  IF CanDowngrade(s2)
                    THEN Notify(clearArray(Downgraded(s2)))
                    ELSE ScalerResult(s2, <<>>)
            ELSE IF ArrayFast(s1) THEN
                LET s2 == [s1 EXCEPT !.consecutiveGood = @ + 1, !.consecutiveBad = 0]
                IN  IF CanUpgrade(s2)
                    THEN Notify(clearArray(Upgraded(s2)))
                    ELSE ScalerResult(s2, <<>>)
            ELSE ScalerResult([s1 EXCEPT !.consecutiveBad = 0, !.consecutiveGood = 0], <<>>)
reportFrameArray(s, deltaMs) ==
    IF ~s.enabled THEN ScalerResult(s, <<>>)
    ELSE
        LET pushed == Append(s.frameTimes, deltaMs)
            s1 == [s EXCEPT !.frameTimes = IF Len(pushed) > s.sampleWindow
                                           THEN Tail(pushed) ELSE pushed]
        IN  IF Len(s1.frameTimes) < s1.sampleWindow THEN ScalerResult(s1, <<>>)
            ELSE IF ArraySlow(s1) THEN
                LET s2 == [s1 EXCEPT !.consecutiveBad = @ + 1, !.consecutiveGood = 0]
                IN  IF CanDowngrade(s2)
                    THEN Notify(clearArray(Downgraded(s2)))
                    ELSE ScalerResult(s2, <<>>)
            ELSE IF ArrayFast(s1) THEN
                LET s2 == [s1 EXCEPT !.consecutiveGood = @ + 1, !.consecutiveBad = 0]
                IN  IF CanUpgrade(s2)
                    THEN Notify(clearArray(Upgraded(s2)))
                    ELSE ScalerResult(s2, <<>>)
            ELSE ScalerResult([s1 EXCEPT !.consecutiveBad = 0, !.consecutiveGood = 0], <<>>)

\* setEnabled(enabled) of the array-based class
setEnabledArray(s, enabled) ==
    IF ~enabled
    THEN [clearArray(s) EXCEPT !.enabled = FALSE, !.consecutiveBad = 0, !.consecutiveGood = 0]
    ELSE [s EXCEPT !.enabled = TRUE]

\* dispose() of the array-based class
disposeArray(s) == [clearArray(s) EXCEPT !.hasCallback = FALSE]

\* both classes constructed with the same tier and options and given a callback;
\* stream holds the array-based object and the notification of its last call
PairInit ==
    /\ \E f \in {"low", "medium", "high", "ultra", CustomName} : \E e \in BOOLEAN :
          /\ scaler = [NewAutoScaler(f, [SmallScalerOptions EXCEPT !.enabled = e])
                          EXCEPT !.hasCallback = TRUE]
          /\ stream = [scaler |-> [NewArrayScaler(f, [SmallScalerOptions EXCEPT !.enabled = e])
                                      EXCEPT !.hasCallback = TRUE],
                       notify |-> <<>>]
    /\ note = <<>>
    /\ registry = BaseRegistry /\ cfgIn = EmptyConfig /\ res = <<>> /\ reps = 0
    /\ spring = <<>> /\ springOp = "none" /\ nsteps = 0
    /\ KernelIdle /\ BankIdle /\ PresetIdle /\ LogIdle

PairUnchanged ==
    UNCHANGED <<resolverVars, springVars, kernelVars, springBank, bankOp, presets, applied, log>>

\* the same reportFrame(d) on both
PairReportFrame ==
    \E d \in FrameInputs :
        /\ StreaksBounded(scaler)
        /\ scaler' = reportFrame(scaler, d).scaler
        /\ note' = reportFrame(scaler, d).notify
        /\ stream' = reportFrameArray(stream.scaler, d)
        /\ PairUnchanged

\* the same setEnabled(e) on both
PairSetEnabled ==
    \E e \in BOOLEAN :
        /\ scaler' = setEnabled(scaler, e)
        /\ note' = <<>>
        /\ stream' = ScalerResult(setEnabledArray(stream.scaler, e), <<>>)
        /\ PairUnchanged

\* dispose() on both
PairDispose ==
    /\ scaler.hasCallback
    /\ scaler' = scalerDispose(scaler)
    /\ note' = <<>>
    /\ stream' = ScalerResult(disposeArray(stream.scaler), <<>>)
    /\ PairUnchanged

PairNext == PairReportFrame \/ PairSetEnabled \/ PairDispose

SpecPair == PairInit /\ [][PairNext]_vars

\* C32: given the same constructor options and the same reportFrame, setEnabled
\* and dispose calls, the ring-buffer AutoScaler and the array-based AutoScaler
\* are at the same tier after every call and invoke onFidelityChange at the same
\* calls with the same tier.
RingMatchesArray ==
    /\ currentFidelity(scaler) = currentFidelity(stream.scaler)
    /\ note = stream.notify

\* both have just notified a downgrade to low after the ring's cursor had
\* wrapped and the array had shifted
RingMatchesArrayWitness ==
    /\ note = <<"low">>
    /\ stream.notify = <<"low">>
    /\ scaler.consecutiveGood = 0
    /\ stream.scaler.frameTimes = <<>>
    /\ BufferEmpty(scaler)

----------------------------------------------------------------------------
(* Frames between two tier transitions of one AutoScaler.  stream counts the *)
(* frames an enabled AutoScaler was given since its last transition (since,  *)
(* -1 before the first) and keeps the count at which the last one came (gap) *)

\* the fewest frames from an empty buffer and zero streaks to a transition
MinGap(s) == s.sampleWindow + Min(s.downgradeThreshold, s.upgradeThreshold) - 1

\* the count stops growing once it is past every threshold
GapCap(s) == s.sampleWindow + s.upgradeThreshold

\* the small AutoScaler is fed all three durations, the default one slow frames
GapFrames(s) == IF s.sampleWindow = SmallWindow THEN FrameInputs ELSE {SlowFrame}

GapInit ==
    /\ \E f \in {"medium", "ultra"} : \E o \in {SmallScalerOptions, DefaultScalerOptions} :
          scaler = [NewAutoScaler(f, o) EXCEPT !.hasCallback = TRUE]
    /\ note = <<>>
    /\ stream = [since |-> -1, gap |-> -1]
    /\ registry = BaseRegistry /\ cfgIn = EmptyConfig /\ res = <<>> /\ reps = 0
    /\ spring = <<>> /\ springOp = "none" /\ nsteps = 0
    /\ KernelIdle /\ BankIdle /\ PresetIdle /\ LogIdle

GapUnchanged ==
    UNCHANGED <<resolverVars, springVars, kernelVars, springBank, bankOp, presets, applied, log>>

GapReportFrame ==
    \E d \in GapFrames(scaler) :
        /\ scaler.consecutiveBad < scaler.downgradeThreshold + MaxStreak
        /\ scaler.consecutiveGood < scaler.upgradeThreshold + MaxStreak
        /\ scaler' = reportFrame(scaler, d).scaler
        /\ note' = reportFrame(scaler, d).notify
        /\ stream' =
              IF ~scaler.enabled THEN stream
              ELSE IF scaler'.currentIndex # scaler.currentIndex
                   THEN [since |-> 0,
                         gap |-> IF stream.since = -1 THEN stream.gap ELSE stream.since + 1]
              ELSE IF stream.since = -1 THEN stream
              ELSE [stream EXCEPT !.since = Min(@ + 1, GapCap(scaler))]
        /\ GapUnchanged

GapSetEnabled ==
    \E e \in BOOLEAN :
        /\ scaler' = setEnabled(scaler, e)
        /\ note' = <<>>
        /\ UNCHANGED stream
        /\ GapUnchanged

GapNext == GapReportFrame \/ GapSetEnabled

SpecGap == GapInit /\ [][GapNext]_vars

\* C33: after a fidelity transition of an AutoScaler the next transition comes
\* no earlier than the frame numbered sampleWindow + min(downgradeThreshold,
\* upgradeThreshold) - 1 after it (the 49th with the defaults).
TransitionsSpacedOut ==
    stream.gap # -1 => stream.gap >= MinGap(scaler)

\* a default AutoScaler has made a second transition on the 49th frame after
\* its first
TransitionsSpacedOutWitness ==
    /\ scaler.sampleWindow = DefaultSampleWindow
    /\ stream.since = 0
    /\ stream.gap = MinGap(scaler)
    /\ note # <<>>

----------------------------------------------------------------------------
(* Enabling and disabling one AutoScaler.  stream names the last call and    *)
(* what the last setEnabled(false) discarded                                 *)

SwitchInit ==
    /\ \E f \in {"low", "medium", "high", "ultra"} : \E e \in BOOLEAN :
          scaler = [NewAutoScaler(f, [SmallScalerOptions EXCEPT !.enabled = e])
                        EXCEPT !.hasCallback = TRUE]
    /\ note = <<>>
    /\ stream = [op |-> "new", arg |-> TRUE, samples |-> 0, streak |-> 0]
    /\ registry = BaseRegistry /\ cfgIn = EmptyConfig /\ res = <<>> /\ reps = 0
    /\ spring = <<>> /\ springOp = "none" /\ nsteps = 0
    /\ KernelIdle /\ BankIdle /\ PresetIdle /\ LogIdle

\* reportFrame(d)
SwitchReportFrameMutIgnoreDisabled ==
    \E d \in FrameInputs :
        /\ StreaksBounded(scaler)
        /\ scaler' = [reportFrame([scaler EXCEPT !.enabled = TRUE], d).scaler
                         EXCEPT !.enabled = scaler.enabled]
        /\ note' = reportFrame([scaler EXCEPT !.enabled = TRUE], d).notify
        /\ stream' = [stream EXCEPT !.op = "reportFrame"]
        /\ GapUnchanged
SwitchReportFrame ==
    \E d \in FrameInputs :
        /\ StreaksBounded(scaler)
        /\ scaler' = reportFrame(scaler, d).scaler
        /\ note' = reportFrame(scaler, d).notify
        /\ stream' = [stream EXCEPT !.op = "reportFrame"]
        /\ GapUnchanged

\* setEnabled(e)
SwitchSetEnabled ==
    \E e \in BOOLEAN :
        /\ scaler' = setEnabled(scaler, e)
        /\ note' = <<>>
        /\ stream' = IF e THEN [stream EXCEPT !.op = "setEnabled", !.arg = TRUE]
                     ELSE [op |-> "setEnabled", arg |-> FALSE,
                           samples |-> scaler.frameCount,
                           streak |-> scaler.consecutiveBad + scaler.consecutiveGood]
        /\ GapUnchanged

SwitchNext == SwitchReportFrame \/ SwitchSetEnabled

SpecSwitch == SwitchInit /\ [][SwitchNext]_vars

\* C34: setEnabled(false) leaves the sample buffer and the running sum empty
\* and both streak counters at 0 and keeps the tier; a reportFrame call on a
\* disabled AutoScaler changes nothing of it and does not invoke
\* onFidelityChange.
DisabledIsInert ==
    [][ /\ (stream'.op = "setEnabled" /\ ~stream'.arg) =>
              /\ ~scaler'.enabled
              /\ BufferEmpty(scaler')
              /\ scaler'.consecutiveBad = 0
              /\ scaler'.consecutiveGood = 0
              /\ scaler'.currentIndex = scaler.currentIndex
              /\ note' = <<>>
        /\ (stream'.op = "reportFrame" /\ ~scaler.enabled) =>
              /\ scaler' = scaler
              /\ note' = <<>>
      ]_vars

\* a frame was reported to an AutoScaler whose full window and streak were
\* discarded when it was disabled
DisabledIsInertWitness ==
    /\ stream.op = "reportFrame"
    /\ ~scaler.enabled
    /\ stream.samples = scaler.sampleWindow
    /\ stream.streak > 0
    /\ BufferEmpty(scaler)

----------------------------------------------------------------------------
(* SMNTCKernel.ts: the knob setters *)

\* calls of knob setters and of configure in one behaviour
MaxKnobCalls == 1

\* JavaScript's a % b for b > 0: the remainder has the sign of a
JsRem(a, b) == IF a >= 0 THEN a % b ELSE -((-a) % b)

\* the knobs with a setter and the bounds each setter passes to Math.max and
\* Math.min; setAngle has none
SetterKnobs ==
    {"intensity", "speed", "angle", "grain", "glow", "chromatic", "vignette", "blur"}

SetterBounds ==
    [ intensity |-> <<0, Fx(2, 1)>>,
      speed     |-> <<0, Fx(5, 1)>>,
      grain     |-> <<0, Fx(1, 1)>>,
      glow      |-> <<0, Fx(2, 1)>>,
      chromatic |-> <<0, Fx(1, 1)>>,
      vignette  |-> <<0, Fx(1, 1)>>,
      blur      |-> <<0, Fx(1, 1)>> ]

\* the value setIntensity .. setBlur store in this.config
setterValue(knob, v) ==
    IF knob = "angle"
    THEN JsRem(JsRem(v, Fx(360, 1)) + Fx(360, 1), Fx(360, 1))
    ELSE Max(SetterBounds[knob][1], Min(SetterBounds[knob][2], v))

\* setIntensity(v) .. setBlur(v)
setKnob(reg, kn, px, pd, knob, v) ==
    LET k1 == [kn EXCEPT !.config[knob] = setterValue(knob, v)]
        r  == resolveConstants(reg, k1.config)
    IN  IF r.threw THEN Thrown(k1, px, pd)
        ELSE Ok([k1 EXCEPT !.springs = pushSpringTargets(k1.springs, r.constants[1])], px, pd)

\* knob arguments: below every range, inside every range, above the unit
\* ranges, above every range
KnobValues == {Fx(-10, 1), Fx(1, 2), Fx(3, 1), Fx(400, 1)}

KnobInit ==
    \E options \in {o \in KernelOptions : ~o.camera} : KernelInitWith(options)

KnobCounted ==
    /\ ncalls < MaxKnobCalls
    /\ ncalls' = ncalls + 1

\* setX(v)
KnobSet ==
    \E knob \in SetterKnobs : \E v \in KnobValues :
        /\ Called("setKnob", <<knob, v>>, TRUE,
                  setKnob(registry, kernel, proxies, pending, knob, v))
        /\ KnobCounted
        /\ UNCHANGED env

\* configure({X: v})
KnobConfigure ==
    \E knob \in SetterKnobs : \E v \in KnobValues :
        /\ Called("configure", <<knob, v>>, TRUE,
                  configure(registry, kernel, proxies, pending, knob :> v))
        /\ KnobCounted
        /\ UNCHANGED env

KnobNext == KnobSet \/ KnobConfigure

SpecKnobs == KnobInit /\ [][KnobNext]_vars

\* the spring target that v, clamped to the documented range of knob, gives
ClampedTarget(knob, v) ==
    LET c == clamp(v, KnobRange[knob][1], KnobRange[knob][2])
    IN  IF knob = "angle" THEN DegToRad(c) ELSE c

\* C35: for each knob setter and every input v, the spring target after setX(v)
\* is the spring target configure({X: v}) gives from the same state, which is
\* v clamped to the knob's documented range.
SetterMatchesConfigure ==
    [][ call'.op = "setKnob" =>
            LET knob == call'.arg[1]
                v    == call'.arg[2]
                viaConfigure == configure(registry, kernel, proxies, pending, knob :> v).kernel
            IN  /\ kernel'.springs[knob].target = viaConfigure.springs[knob].target
                /\ kernel'.springs[knob].target = ClampedTarget(knob, v)
      ]_vars

\* C36: when applyPreset succeeds and its result is resolved, for every category
\* whose allow-list the preset gives, the token resolveConstants uses - the
\* merged selection, or the global default when there is none - is in the
\* allow-list.
ResolvedTokensAllowed ==
    (applied # <<>> /\ ~applied.out.threw) =>
        \A f \in TokenFields \cap DOMAIN applied.preset.allowed :
            OrDefault(applied.out.merged[1], f) \in SeqRange(applied.preset.allowed[f])

----------------------------------------------------------------------------
(* The self-managed animation loop.  stream keeps the last of the start,     *)
(* stop and dispose calls and the number of start calls                      *)

\* start, stop, dispose calls and animation frames in one behaviour
MaxLoopCalls == 6

LoopInit ==
    /\ registry = BaseRegistry /\ cfgIn = EmptyConfig /\ res = <<>> /\ reps = 0
    /\ spring = <<>> /\ springOp = "none" /\ nsteps = 0
    /\ scaler = <<>> /\ note = <<>>
    /\ kernel = NewKernel(registry, [config |-> EmptyConfig, camera |-> FALSE,
                                     domElement |-> FALSE, disableAutoScale |-> TRUE])
    /\ proxies = <<>>
    /\ pending = {}
    /\ call = [op |-> "new", arg |-> "", valid |-> TRUE, threw |-> FALSE]
    /\ env = [mesh |-> FALSE, view |-> FALSE, hidden |-> FALSE]
    /\ ncalls = 0
    /\ stream = [last |-> "new", starts |-> 0]
    /\ BankIdle /\ PresetIdle /\ LogIdle

LoopCalled(op, out) ==
    /\ ncalls < MaxLoopCalls
    /\ ncalls' = ncalls + 1
    /\ kernel' = out.kernel
    /\ proxies' = out.proxies
    /\ pending' = out.pending
    /\ call' = [op |-> op, arg |-> "", valid |-> TRUE, threw |-> out.threw]
    /\ UNCHANGED <<resolverVars, springVars, scalerVars, env,
                   springBank, bankOp, presets, applied, log>>

LoopStart ==
    \E renderer \in BOOLEAN :
        /\ LoopCalled("start", start(kernel, proxies, pending, renderer))
        /\ stream' = [last |-> "start", starts |-> stream.starts + 1]

LoopStop ==
    /\ LoopCalled("stop", stop(kernel, proxies, pending))
    /\ stream' = [stream EXCEPT !.last = "stop"]

LoopDispose ==
    /\ LoopCalled("dispose", dispose(kernel, proxies, pending))
    /\ stream' = [stream EXCEPT !.last = "dispose"]

\* the browser runs a pending animation-frame callback
LoopFrame ==
    \E id \in pending : \E us \in KernelFrames :
        /\ LoopCalled("frame", loop(registry, kernel, proxies, pending, id, us))
        /\ UNCHANGED stream

LoopNext == LoopStart \/ LoopStop \/ LoopDispose \/ LoopFrame

SpecLoop == LoopInit /\ [][LoopNext]_vars

\* C37: under any interleaving of start, stop, dispose and animation-frame
\* callbacks at most one animation-frame callback of the kernel is pending, and
\* once stop() or dispose() was called no callback is left pending and no frame
\* callback runs update() before start() is called again.
OneLoopAtATime ==
    /\ [](/\ Cardinality(pending) <= 1
          /\ stream.last \in {"stop", "dispose"} => pending = {})
    /\ [][ (call'.op = "frame" /\ stream.last \in {"stop", "dispose"}) => kernel' = kernel ]_vars

\* the loop was started, ran update(), was stopped, and was started and stopped
\* again
OneLoopAtATimeWitness ==
    /\ call.op = "stop"
    /\ stream.last = "stop"
    /\ stream.starts = 2
    /\ kernel.lastFrameTime
    /\ pending = {}

----------------------------------------------------------------------------
(* Pointer-down triggers.  stream keeps the page's time performance.now() in *)
(* fixed-point seconds (now) and the time of the last trigger the kernel's   *)
(* proxy received (trigger, -1 when none)                                    *)

\* calls and events in one behaviour
MaxShockCalls == 5

\* InputProxy.handlePointerDown(e), now being performance.now() / 1000
handlePointerDown(p, now) == [p EXCEPT !.shockStartTime = now]

\* the time that passes between two events: one frame or one second
ShockDelays == {DefaultTargetFrameTime, 1000000}

ShockInit ==
    /\ registry = BaseRegistry /\ cfgIn = EmptyConfig /\ res = <<>> /\ reps = 0
    /\ spring = <<>> /\ springOp = "none" /\ nsteps = 0
    /\ scaler = <<>> /\ note = <<>>
    /\ \E r \in {"shockwave", "magnetic"} :
          kernel = NewKernel(registry, [config |-> [reactivity |-> r], camera |-> TRUE,
                                        domElement |-> TRUE, disableAutoScale |-> TRUE])
    /\ proxies = <<>>
    /\ pending = {}
    /\ call = [op |-> "new", arg |-> "", valid |-> TRUE, threw |-> FALSE]
    /\ env = [mesh |-> FALSE, view |-> TRUE, hidden |-> FALSE]
    /\ ncalls = 0
    /\ stream = [now |-> 0, trigger |-> -1]
    /\ BankIdle /\ PresetIdle /\ LogIdle

ShockCalled(op, out) ==
    /\ ncalls < MaxShockCalls
    /\ ncalls' = ncalls + 1
    /\ kernel' = out.kernel
    /\ proxies' = out.proxies
    /\ pending' = out.pending
    /\ call' = [op |-> op, arg |-> "", valid |-> TRUE, threw |-> out.threw]
    /\ UNCHANGED <<resolverVars, springVars, scalerVars, env,
                   springBank, bankOp, presets, applied, log>>

\* apply(mesh, camera, domElement), once
ShockApply ==
    /\ kernel.inputProxy = NoProxy
    /\ ShockCalled("apply", apply(kernel, proxies, pending, TRUE, TRUE))
    /\ UNCHANGED stream

\* start() without a renderer: the clock starts
ShockStart ==
    /\ ~kernel.animating
    /\ ShockCalled("start", start(kernel, proxies, pending, FALSE))
    /\ UNCHANGED stream

\* time passes before the clock is started and nothing is called
ShockWait ==
    \E us \in ShockDelays :
        /\ ~kernel.clock.running
        /\ ShockCalled("wait", Ok(kernel, proxies, pending))
        /\ stream' = [stream EXCEPT !.now = @ + us \div 10]

\* a pointerdown event on the DOM element reaches every proxy listening for it
ShockPointerDown ==
    /\ ShockCalled("pointerdown",
                   Ok(kernel,
                      [i \in DOMAIN proxies |->
                          IF proxies[i].pointerdown
                          THEN handlePointerDown(proxies[i], stream.now)
                          ELSE proxies[i]],
                      pending))
    /\ stream' = IF kernel.inputProxy # NoProxy /\ proxies[kernel.inputProxy].pointerdown
                 THEN [stream EXCEPT !.trigger = stream.now]
                 ELSE stream

\* update(), us microseconds after the previous event
ShockUpdate ==
    \E us \in ShockDelays :
        /\ ShockCalled("update", update(registry, kernel, proxies, pending, us))
        /\ stream' = [stream EXCEPT !.now = @ + us \div 10]

ShockNext == ShockApply \/ ShockStart \/ ShockWait \/ ShockPointerDown \/ ShockUpdate

SpecShock == ShockInit /\ [][ShockNext]_vars

\* C38: in shockwave mode every update after a pointer-down trigger writes to
\* uShockTime the non-negative time elapsed between the trigger and the update;
\* in every other reactivity mode no update writes uShockTime.
ShockTimeSinceTrigger ==
    [][ call'.op = "update" =>
            /\ (kernel.config.reactivity = "shockwave" /\ stream.trigger # -1) =>
                  /\ kernel'.uniforms.uShockTime = stream'.now - stream.trigger
                  /\ kernel'.uniforms.uShockTime >= 0
            /\ kernel.config.reactivity # "shockwave" =>
                  kernel'.uniforms.uShockTime = kernel.uniforms.uShockTime
      ]_vars

----------------------------------------------------------------------------
(* Claims about Spring.step *)

\* time steps at and above the 0.064 s ceiling: the ceiling, 0.1 s, 1 s, 5 s
LargeDts == {<<64, 1000>>, <<1, 10>>, <<1, 1>>, <<5, 1>>}

\* C39: for every dt of at least 0.064 s, step(dt) on an unsettled spring gives
\* the value, velocity and settled flag that step(0.064) gives from the same
\* state, so one step with dt = 5 s moves the spring no further than one step
\* of 0.064 s.
LargeDtIsCeiling ==
    ~spring.settled =>
        \A dt \in LargeDts : SpringStep(spring, dt) = SpringStep(spring, <<64, 1000>>)

\* the test's case: new Spring(0), setTarget(10), one step(5): the spring is
\* where one step of 0.064 s takes it
LargeDtIsCeilingWitness ==
    /\ springOp = "step"
    /\ nsteps = 1
    /\ ~spring.settled
    /\ spring.target = Fx(10, 1)
    /\ spring = SpringStep(SpringSetTarget(NewSpring(0, DEFAULT_SPRING), Fx(10, 1)), <<5, 1>>)
    /\ spring.value > 0
    /\ spring.value < Fx(10, 1)

\* C40: step(dt) on a settled spring leaves value, velocity, target and settled
\* as they are, for every dt; a settled spring changes only by setTarget with a
\* different target or by snap.
SettledStaysPut ==
    [][ spring.settled =>
            /\ springOp' = "step" => spring' = spring
            /\ \A dt \in SpringDts : SpringStep(spring, dt) = spring
            /\ spring' # spring =>
                  \/ springOp' = "snap"
                  \/ springOp' = "setTarget" /\ spring'.target # spring.target
      ]_vars

\* a spring at rest at 10 was stepped once and is as it was
SettledStaysPutWitness ==
    /\ springOp = "step"
    /\ nsteps = 1
    /\ spring.settled
    /\ spring = NewSpring(Fx(10, 1), DEFAULT_SPRING)

====
